---- MODULE Spec2Model ----
(***************************************************************************)
(* SHURIUM UBI distribution engine (economics/ubi.cpp): the per-epoch      *)
(* reward pools of UBIDistributor, claim processing and verification,      *)
(* pruning, and the distributor mutex.                                     *)
(***************************************************************************)
EXTENDS Integers, Sequences, FiniteSets, TLC

(***************************************************************************)
(* Network parameters of economics/ubi.h, scaled down.                     *)
(***************************************************************************)
EPOCH_BLOCKS == 2
UBI_CLAIM_WINDOW == 1
UBI_GRACE_EPOCHS == 1
MIN_IDENTITIES_FOR_UBI == 1
MAX_UBI_PER_PERSON == 3
\* the literal buffer of PruneOldPools
PRUNE_BUFFER == 10
\* order of the scalar field of crypto/field.h, scaled down
FIELD_MODULUS == 7

(***************************************************************************)
(* Bounds of the model.                                                    *)
(***************************************************************************)
MaxPool == 4
MaxClaims == 2

Epochs == {0, 1}
\* epoch 0 is complete, epoch 1 is the one still accumulating
FinalizedEpochs == {0}
NullifierHashes == {1, 2}
Roots == {1, 2}
RewardAmounts == {2}
IdentityCounts == {0, 1}

Min(a, b) == IF a < b THEN a ELSE b

HeightToEpoch(height) == height \div EPOCH_BLOCKS

EpochEndHeight(epoch) == (epoch + 1) * EPOCH_BLOCKS - 1

\* FieldElement::FromBytes on a Hash256: the bytes reduced into the field
FieldFromBytes(root) == root % FIELD_MODULUS

\* FieldElement(uint64_t)
FieldFromU64(n) == n % FIELD_MODULUS

ClaimDeadlineOf(epoch) ==
    EpochEndHeight(epoch) + UBI_CLAIM_WINDOW + (UBI_GRACE_EPOCHS * EPOCH_BLOCKS)

BlockHeights == {e * EPOCH_BLOCKS + k : e \in Epochs, k \in {0, EPOCH_BLOCKS - 1}}
ClaimHeights == {0, ClaimDeadlineOf(0), ClaimDeadlineOf(0) + 1}
PruneArgs == {UBI_GRACE_EPOCHS + PRUNE_BUFFER + k : k \in {0, 1, 2}}

(***************************************************************************)
(* Nullifier: hash plus epoch, equality over both fields.                  *)
(***************************************************************************)
Nullifier(hash, epoch) == [hash |-> hash, epoch |-> epoch]

(***************************************************************************)
(* ZKProof: structural validity, type tag, public inputs                   *)
(* [identityRoot, nullifierHash, epoch], and the verdict of the circuit    *)
(* verifier ProofVerifier::Verify(proof, "ubi_claim") on it.               *)
(***************************************************************************)
ZKProof(valid, type, inputs, circuitOk) ==
    [isValid |-> valid, type |-> type, publicInputs |-> inputs, circuitOk |-> circuitOk]

EmptyProof == ZKProof(FALSE, "None", <<>>, FALSE)

\* the proof GenerateUBIClaimProof makes for the identity with nullifier hash n in epoch e
GoodProof(n, e) == ZKProof(TRUE, "UBIClaim", <<FieldFromBytes(1), n, FieldFromU64(e)>>, TRUE)

(***************************************************************************)
(* UBIClaim as UBIClaim::Create returns it.                                *)
(***************************************************************************)
UBIClaim(epoch, nullifier, proof) ==
    [epoch |-> epoch, nullifier |-> nullifier, proof |-> proof,
     status |-> IF proof = EmptyProof THEN "InvalidProof" ELSE "Pending",
     amount |-> 0, submitHeight |-> 0]

\* claims as honest claimants create them, one per identity and epoch
HonestClaims == {UBIClaim(0, Nullifier(n, 0), GoodProof(n, 0)) : n \in NullifierHashes}

\* the proof of identity 1 for epoch 0, carried by a claim under another nullifier
ReplayClaims == {UBIClaim(0, Nullifier(2, 0), GoodProof(1, 0))}

\* claims whose proof fails one of the proof checks
BadClaims ==
    {UBIClaim(0, Nullifier(1, 0), p) :
        p \in { EmptyProof,
                ZKProof(TRUE, "UBIClaim", <<FieldFromBytes(1), 1>>, TRUE),
                ZKProof(TRUE, "UBIClaim", <<FieldFromBytes(1), 1, FieldFromU64(0)>>, FALSE) }}

Claims == HonestClaims \cup ReplayClaims \cup BadClaims

ClaimStatuses ==
    {"Pending", "Valid", "InvalidProof", "DoubleClaim", "IdentityNotFound",
     "EpochExpired", "EpochNotComplete", "PoolEmpty"}

(***************************************************************************)
(* EpochUBIPool                                                            *)
(***************************************************************************)
NewPool(epoch) ==
    [epoch |-> epoch, endHeight |-> EpochEndHeight(epoch), claimDeadline |-> 0,
     totalPool |-> 0, eligibleCount |-> 0, amountPerPerson |-> 0,
     amountClaimed |-> 0, claimCount |-> 0, isFinalized |-> FALSE,
     usedNullifiers |-> {}]

Finalize(pool, identityCount) ==
    [pool EXCEPT !.eligibleCount = identityCount,
                 !.amountPerPerson =
                     IF identityCount >= MIN_IDENTITIES_FOR_UBI
                     THEN Min(pool.totalPool \div identityCount, MAX_UBI_PER_PERSON)
                     ELSE 0,
                 !.isFinalized = TRUE]

IsNullifierUsed(pool, nullifier) == nullifier \in pool.usedNullifiers

RecordClaim(pool, nullifier, amount) ==
    [pool EXCEPT !.usedNullifiers = @ \cup {nullifier},
                 !.amountClaimed = @ + amount,
                 !.claimCount = @ + 1]

AcceptingClaims(pool, currentHeight) ==
    IF ~pool.isFinalized THEN FALSE ELSE currentHeight <= pool.claimDeadline

VARIABLES
    pools,             \* pools_: EpochId -> EpochUBIPool
    currentEpoch,      \* currentEpoch_
    totalDistributed,  \* totalDistributed_
    totalClaims,       \* totalClaims_
    claim,             \* the UBIClaim object the caller holds
    ret,               \* what the last operation returned
    validLog,          \* history: the claims ProcessClaim answered Valid
    mutex,             \* mutex_: the thread that holds it, or NoThread
    pc,                \* per thread: where it is inside its ProcessClaim call
    tclaim,            \* per thread: the UBIClaim object it passes
    targs,             \* per thread: identityTreeRoot and currentHeight it passes
    tret,              \* per thread: what its call returned
    tref,              \* per thread: the pool pointer it holds, an epoch or NoRef
    snapshot,          \* history: the pools when the threads started
    arg,               \* the input a stand-alone function is applied to
    out,               \* what the function returned, or NoValue before the call
    chain,             \* the block index: chain[h + 1] is the block at height h
    pendingQueue,      \* SolutionVerifier::Impl::pendingQueue_
    callbacks,         \* history: the solutions whose callback has been invoked
    stats,             \* totalVerifications_, successfulCount_, failedCount_
    verifiers,         \* VerifierRegistry::Impl::verifiers_: ProblemType -> verifier object
    destroyed,         \* the verifier objects whose destructor has run
    vpc,               \* per thread: where it is inside SolutionVerifier::Verify
    handle,            \* per thread: the IVerifier* it got from GetVerifier
    vresult            \* per thread: the result of its Verify call

seqvars == <<claim, ret, validLog>>
marketvars == <<pendingQueue, callbacks, stats, verifiers, destroyed, vpc, handle, vresult>>
tvars == <<mutex, pc, tclaim, targs, tret, tref, snapshot, arg, out, chain, marketvars>>
vars == <<pools, currentEpoch, totalDistributed, totalClaims, claim, ret, validLog,
          mutex, pc, tclaim, targs, tret, tref, snapshot, arg, out, chain, marketvars>>

\* a marketplace nothing has been called on
MarketIdle ==
    /\ pendingQueue = <<>>
    /\ callbacks = {}
    /\ stats = <<>>
    /\ verifiers = <<>>
    /\ destroyed = {}
    /\ vpc = <<>>
    /\ handle = <<>>
    /\ vresult = <<>>

Threads == {1, 2}
NoThread == 0
NoRef == -1
NoValue == [done |-> FALSE]
Returned(v) == [done |-> TRUE, value |-> v]

NoPool == [absent |-> TRUE]

HasPool(ps, epoch) == epoch \in DOMAIN ps /\ ps[epoch] # NoPool

Init ==
    /\ MarketIdle
    /\ pools = [e \in Epochs |-> NoPool]
    /\ currentEpoch = 0
    /\ totalDistributed = 0
    /\ totalClaims = 0
    /\ claim = UBIClaim(0, Nullifier(1, 0), EmptyProof)
    /\ ret = "none"
    /\ validLog = {}
    /\ mutex = NoThread
    /\ pc = [t \in Threads |-> "idle"]
    /\ tclaim = [t \in Threads |-> UBIClaim(0, Nullifier(1, 0), EmptyProof)]
    /\ targs = [t \in Threads |-> [root |-> 1, height |-> 0]]
    /\ tret = [t \in Threads |-> "none"]
    /\ tref = [t \in Threads |-> NoRef]
    /\ snapshot = [e \in Epochs |-> NoPool]
    /\ arg = NoValue
    /\ out = NoValue
    /\ chain = <<>>

(***************************************************************************)
(* UBIDistributor                                                          *)
(***************************************************************************)
GetOrCreatePool(ps, epoch) ==
    IF ~HasPool(ps, epoch) THEN [ps EXCEPT ![epoch] = NewPool(epoch)] ELSE ps

AddBlockReward(height, amount) ==
    LET epoch == HeightToEpoch(height)
        ps == GetOrCreatePool(pools, epoch)
    IN /\ ps[epoch].totalPool + amount <= MaxPool
       /\ currentEpoch' = epoch
       /\ pools' = [ps EXCEPT ![epoch].totalPool = @ + amount]
       /\ ret' = "none"
       /\ UNCHANGED <<totalDistributed, totalClaims, claim, validLog, tvars>>

FinalizeEpoch(epoch, identityCount) ==
    /\ IF ~HasPool(pools, epoch)
       THEN UNCHANGED pools
       ELSE pools' = [pools EXCEPT ![epoch] =
                Finalize([@ EXCEPT !.endHeight = EpochEndHeight(epoch),
                                   !.claimDeadline = EpochEndHeight(epoch) + UBI_CLAIM_WINDOW
                                                     + (UBI_GRACE_EPOCHS * EPOCH_BLOCKS)],
                         identityCount)]
    /\ ret' = "none"
    /\ UNCHANGED <<currentEpoch, totalDistributed, totalClaims, claim, validLog, tvars>>

\* the proof checks of ProcessClaim and VerifyClaim, in the code's order
ProofAccepted(c, identityTreeRoot) ==
    /\ c.proof.isValid
    /\ c.proof.type = "UBIClaim"
    /\ Len(c.proof.publicInputs) >= 3
    /\ c.proof.publicInputs[1] = FieldFromBytes(identityTreeRoot)
    /\ c.proof.publicInputs[3] = FieldFromU64(c.epoch)
    /\ c.proof.circuitOk

\* variant: the proof is checked before the nullifier is looked up
ProcessClaimStatusProofFirst(ps, c, identityTreeRoot, currentHeight) ==
    IF ~HasPool(ps, c.epoch) THEN "EpochNotComplete"
    ELSE IF ~ps[c.epoch].isFinalized THEN "EpochNotComplete"
    ELSE IF ~AcceptingClaims(ps[c.epoch], currentHeight) THEN "EpochExpired"
    ELSE IF ps[c.epoch].amountPerPerson = 0 THEN "PoolEmpty"
    ELSE IF ~ProofAccepted(c, identityTreeRoot) THEN "InvalidProof"
    ELSE IF IsNullifierUsed(ps[c.epoch], c.nullifier) THEN "DoubleClaim"
    ELSE "Valid"

\* the status ProcessClaim writes into the claim: the first check that fails
ProcessClaimStatus(ps, c, identityTreeRoot, currentHeight) ==
    IF ~HasPool(ps, c.epoch) THEN "EpochNotComplete"
    ELSE IF ~ps[c.epoch].isFinalized THEN "EpochNotComplete"
    ELSE IF ~AcceptingClaims(ps[c.epoch], currentHeight) THEN "EpochExpired"
    ELSE IF ps[c.epoch].amountPerPerson = 0 THEN "PoolEmpty"
    ELSE IF IsNullifierUsed(ps[c.epoch], c.nullifier) THEN "DoubleClaim"
    ELSE IF ~ProofAccepted(c, identityTreeRoot) THEN "InvalidProof"
    ELSE "Valid"

\* variant: the nullifier is recorded as soon as it is found unused, before
\* the proof is verified
ProcessClaimCallRecordEarly(d, c, identityTreeRoot, currentHeight) ==
    LET c1 == [c EXCEPT !.submitHeight = currentHeight]
        st == ProcessClaimStatus(d.pools, c1, identityTreeRoot, currentHeight)
    IN IF st \notin {"Valid", "InvalidProof"}
       THEN [d |-> d, claim |-> [c1 EXCEPT !.status = st], ret |-> st]
       ELSE LET c2 == [c1 EXCEPT !.amount = IF st = "Valid"
                                            THEN d.pools[c.epoch].amountPerPerson ELSE @,
                                 !.status = st]
            IN [d |-> [d EXCEPT !.pools[c.epoch] =
                                    RecordClaim(@, c2.nullifier, d.pools[c.epoch].amountPerPerson),
                                !.totalDistributed = @ + d.pools[c.epoch].amountPerPerson,
                                !.totalClaims = @ + 1],
                claim |-> c2, ret |-> st]

\* the whole call: the claim as left behind, the distributor as left behind
ProcessClaimCall(d, c, identityTreeRoot, currentHeight) ==
    LET c1 == [c EXCEPT !.submitHeight = currentHeight]
        st == ProcessClaimStatus(d.pools, c1, identityTreeRoot, currentHeight)
    IN IF st # "Valid"
       THEN [d |-> d, claim |-> [c1 EXCEPT !.status = st], ret |-> st]
       ELSE LET c2 == [c1 EXCEPT !.amount = d.pools[c.epoch].amountPerPerson,
                                 !.status = "Valid"]
            IN [d |-> [d EXCEPT !.pools[c.epoch] = RecordClaim(@, c2.nullifier, c2.amount),
                                !.totalDistributed = @ + c2.amount,
                                !.totalClaims = @ + 1],
                claim |-> c2, ret |-> "Valid"]

Distributor ==
    [pools |-> pools, totalDistributed |-> totalDistributed, totalClaims |-> totalClaims]

LogEntry(c) ==
    [epoch |-> c.epoch, nullifier |-> c.nullifier, proofNullifier |-> c.proof.publicInputs[2]]

CreateClaim(c) ==
    /\ claim' = c
    /\ ret' = "none"
    /\ UNCHANGED <<pools, currentEpoch, totalDistributed, totalClaims, validLog, tvars>>

ProcessClaim(identityTreeRoot, currentHeight) ==
    LET r == ProcessClaimCall(Distributor, claim, identityTreeRoot, currentHeight)
    IN /\ r.ret = "Valid" => totalClaims < MaxClaims
       /\ pools' = r.d.pools
       /\ totalDistributed' = r.d.totalDistributed
       /\ totalClaims' = r.d.totalClaims
       /\ claim' = r.claim
       /\ ret' = r.ret
       /\ validLog' = IF r.ret = "Valid" THEN validLog \cup {LogEntry(claim)} ELSE validLog
       /\ UNCHANGED <<currentEpoch, tvars>>

VerifyClaimResult(ps, c, identityTreeRoot, currentHeight) ==
    IF ~HasPool(ps, c.epoch) THEN FALSE
    ELSE IF ~ps[c.epoch].isFinalized THEN FALSE
    ELSE IF ~AcceptingClaims(ps[c.epoch], currentHeight) THEN FALSE
    ELSE IF IsNullifierUsed(ps[c.epoch], c.nullifier) THEN FALSE
    ELSE ProofAccepted(c, identityTreeRoot)

VerifyClaim(identityTreeRoot, currentHeight) ==
    /\ ret' = IF VerifyClaimResult(pools, claim, identityTreeRoot, currentHeight) THEN "true" ELSE "false"
    /\ UNCHANGED <<pools, currentEpoch, totalDistributed, totalClaims, claim, validLog, tvars>>

PruneCutoff(epoch) ==
    IF epoch > (UBI_GRACE_EPOCHS + PRUNE_BUFFER)
    THEN epoch - UBI_GRACE_EPOCHS - PRUNE_BUFFER
    ELSE 0

PruneOldPools(epoch) ==
    /\ pools' = [e \in DOMAIN pools |-> IF e < PruneCutoff(epoch) THEN NoPool ELSE pools[e]]
    /\ ret' = "none"
    /\ UNCHANGED <<currentEpoch, totalDistributed, totalClaims, claim, validLog, tvars>>

Next ==
    \/ \E h \in BlockHeights, a \in RewardAmounts : AddBlockReward(h, a)
    \/ \E e \in FinalizedEpochs, n \in IdentityCounts : FinalizeEpoch(e, n)
    \/ \E c \in Claims : CreateClaim(c)
    \/ \E r \in Roots, h \in ClaimHeights : ProcessClaim(r, h)
    \/ \E r \in Roots, h \in ClaimHeights : VerifyClaim(r, h)
    \/ \E e \in PruneArgs : PruneOldPools(e)

Spec == Init /\ [][Next]_vars

(***************************************************************************)
(* The operations that write the distributor or the claim.  VerifyClaim is *)
(* a const member function and writes neither, so the distributor and      *)
(* claim states reached are those of Spec.                                 *)
(***************************************************************************)
NextWrite ==
    \/ \E h \in BlockHeights, a \in RewardAmounts : AddBlockReward(h, a)
    \/ \E e \in FinalizedEpochs, n \in IdentityCounts : FinalizeEpoch(e, n)
    \/ \E c \in Claims : CreateClaim(c)
    \/ \E r \in Roots, h \in ClaimHeights : ProcessClaim(r, h)
    \/ \E e \in PruneArgs : PruneOldPools(e)

SpecWrite == Init /\ [][NextWrite]_vars

(***************************************************************************)
(* ProcessClaim called from two threads: the lock_guard on mutex_, then    *)
(* the checks, then the recording of the claim, then the release.          *)
(***************************************************************************)
\* variant: the call does not wait for the mutex
CanLockUnguarded(m) == TRUE

\* std::lock_guard<std::mutex> blocks until no thread holds mutex_
CanLock(m) == m = NoThread

\* claims with a valid proof that carry the nullifier of identity 1 for epoch 0
RacingClaims == {UBIClaim(0, Nullifier(1, 0), GoodProof(n, 0)) : n \in NullifierHashes}

\* pool of epoch 0, funded and finalized, with or without an earlier claim
RacedPools ==
    {[e \in Epochs |->
        IF e # 0 THEN NoPool
        ELSE LET fin == Finalize([NewPool(0) EXCEPT
                                     !.totalPool = a,
                                     !.claimDeadline = EpochEndHeight(0) + UBI_CLAIM_WINDOW
                                                       + (UBI_GRACE_EPOCHS * EPOCH_BLOCKS)], 1)
             IN IF prior THEN RecordClaim(fin, Nullifier(2, 0), fin.amountPerPerson) ELSE fin] :
     a \in {2, 4}, prior \in BOOLEAN}

InitConc ==
    /\ MarketIdle
    /\ pools \in RacedPools
    /\ currentEpoch = 0
    /\ totalClaims = pools[0].claimCount
    /\ totalDistributed = pools[0].amountClaimed
    /\ claim = UBIClaim(0, Nullifier(1, 0), EmptyProof)
    /\ ret = "none"
    /\ validLog = {}
    /\ mutex = NoThread
    /\ pc = [t \in Threads |-> "idle"]
    /\ tclaim \in [Threads -> RacingClaims]
    /\ targs \in [Threads -> {[root |-> 1, height |-> h] : h \in {0, ClaimDeadlineOf(0)}}]
    /\ tret = [t \in Threads |-> "none"]
    /\ tref = [t \in Threads |-> NoRef]
    /\ snapshot = pools
    /\ arg = NoValue
    /\ out = NoValue
    /\ chain = <<>>

\* line 368: take the mutex
Lock(t) ==
    /\ pc[t] = "idle"
    /\ CanLock(mutex)
    /\ mutex' = t
    /\ pc' = [pc EXCEPT ![t] = "check"]
    /\ UNCHANGED <<pools, currentEpoch, totalDistributed, totalClaims, seqvars,
                   tclaim, targs, tret, tref, snapshot, arg, out, chain, marketvars>>

\* lines 370-453: stamp the height, run the checks, return early on a failure
Check(t) ==
    /\ pc[t] = "check"
    /\ LET c1 == [tclaim[t] EXCEPT !.submitHeight = targs[t].height]
           st == ProcessClaimStatus(pools, c1, targs[t].root, targs[t].height)
       IN IF st # "Valid"
          THEN /\ tclaim' = [tclaim EXCEPT ![t] = [c1 EXCEPT !.status = st]]
               /\ tret' = [tret EXCEPT ![t] = st]
               /\ pc' = [pc EXCEPT ![t] = "unlock"]
          ELSE /\ tclaim' = [tclaim EXCEPT ![t] = c1]
               /\ tret' = tret
               /\ pc' = [pc EXCEPT ![t] = "record"]
    /\ UNCHANGED <<pools, currentEpoch, totalDistributed, totalClaims, seqvars,
                   mutex, targs, tref, snapshot, arg, out, chain, marketvars>>

\* lines 455-464: the claim is valid, record it
Record(t) ==
    /\ pc[t] = "record"
    /\ LET e == tclaim[t].epoch
           c2 == [tclaim[t] EXCEPT !.amount = pools[e].amountPerPerson, !.status = "Valid"]
       IN /\ tclaim' = [tclaim EXCEPT ![t] = c2]
          /\ pools' = [pools EXCEPT ![e] = RecordClaim(@, c2.nullifier, c2.amount)]
          /\ totalDistributed' = totalDistributed + c2.amount
          /\ totalClaims' = totalClaims + 1
          /\ tret' = [tret EXCEPT ![t] = "Valid"]
    /\ pc' = [pc EXCEPT ![t] = "unlock"]
    /\ UNCHANGED <<currentEpoch, seqvars, mutex, targs, tref, snapshot, arg, out, chain, marketvars>>

\* the lock_guard goes out of scope at the return
Unlock(t) ==
    /\ pc[t] = "unlock"
    /\ mutex' = IF mutex = t THEN NoThread ELSE mutex
    /\ pc' = [pc EXCEPT ![t] = "done"]
    /\ UNCHANGED <<pools, currentEpoch, totalDistributed, totalClaims, seqvars,
                   tclaim, targs, tret, tref, snapshot, arg, out, chain, marketvars>>

NextConc ==
    \/ \E t \in Threads : Lock(t)
    \/ \E t \in Threads : Check(t)
    \/ \E t \in Threads : Record(t)
    \/ \E t \in Threads : Unlock(t)

SpecConc == InitConc /\ [][NextConc]_vars

(***************************************************************************)
(* One distributor called from two threads, one call each: AddBlockReward  *)
(* (lock_guard over its body), PruneOldPools (takes no lock) and           *)
(* GetAmountPerPerson (GetPool holds the lock while it looks the pool up,  *)
(* the caller reads through the returned pointer after GetPool returned).  *)
(***************************************************************************)
RaceCalls ==
    {[call |-> "AddBlockReward", height |-> h, amount |-> a] :
        h \in BlockHeights, a \in RewardAmounts}
    \cup {[call |-> "PruneOldPools", epoch |-> e] : e \in PruneArgs}
    \cup {[call |-> "GetAmountPerPerson", epoch |-> e] : e \in Epochs}

InitRace ==
    /\ MarketIdle
    /\ pools \in RacedPools
    /\ currentEpoch = 0
    /\ totalClaims = pools[0].claimCount
    /\ totalDistributed = pools[0].amountClaimed
    /\ claim = UBIClaim(0, Nullifier(1, 0), EmptyProof)
    /\ ret = "none"
    /\ validLog = {}
    /\ mutex = NoThread
    /\ pc = [t \in Threads |-> "idle"]
    /\ tclaim = [t \in Threads |-> UBIClaim(0, Nullifier(1, 0), EmptyProof)]
    /\ targs \in [Threads -> RaceCalls]
    /\ tret = [t \in Threads |-> "none"]
    /\ tref = [t \in Threads |-> NoRef]
    /\ snapshot = pools
    /\ arg = NoValue
    /\ out = NoValue
    /\ chain = <<>>

\* the process died on an access to freed memory: no thread runs on
Crash == [t \in Threads |-> "crashed"]

\* AddBlockReward, line 305: take the mutex
AddLock(t) ==
    /\ pc[t] = "idle"
    /\ targs[t].call = "AddBlockReward"
    /\ CanLock(mutex)
    /\ mutex' = t
    /\ pc' = [pc EXCEPT ![t] = "addGet"]
    /\ UNCHANGED <<pools, currentEpoch, totalDistributed, totalClaims, seqvars,
                   tclaim, targs, tret, tref, snapshot, arg, out, chain, marketvars>>

\* AddBlockReward, lines 307-326: set currentEpoch_, get a reference to the pool
AddGet(t) ==
    /\ pc[t] = "addGet"
    /\ LET epoch == HeightToEpoch(targs[t].height)
       IN /\ currentEpoch' = epoch
          /\ pools' = GetOrCreatePool(pools, epoch)
          /\ tref' = [tref EXCEPT ![t] = epoch]
    /\ pc' = [pc EXCEPT ![t] = "addWrite"]
    /\ UNCHANGED <<totalDistributed, totalClaims, seqvars, mutex, tclaim, targs,
                   tret, snapshot, arg, out, chain, marketvars>>

\* AddBlockReward, line 327: pool.totalPool += amount through the reference;
\* when the pool was erased meanwhile the write goes to freed memory, and
\* either it is lost or the process dies
AddWrite(t) ==
    /\ pc[t] = "addWrite"
    /\ IF HasPool(pools, tref[t])
       THEN /\ pools' = [pools EXCEPT ![tref[t]].totalPool = @ + targs[t].amount]
            /\ pc' = [pc EXCEPT ![t] = "unlock"]
       ELSE /\ pools' = pools
            /\ pc' \in {[pc EXCEPT ![t] = "unlock"], Crash}
    /\ UNCHANGED <<currentEpoch, totalDistributed, totalClaims, seqvars, mutex,
                   tclaim, targs, tret, tref, snapshot, arg, out, chain, marketvars>>

\* PruneOldPools, lines 823-836: erase the pools below the cutoff; no lock
PruneErase(t) ==
    /\ pc[t] = "idle"
    /\ targs[t].call = "PruneOldPools"
    /\ pools' = [e \in DOMAIN pools |->
                    IF e < PruneCutoff(targs[t].epoch) THEN NoPool ELSE pools[e]]
    /\ pc' = [pc EXCEPT ![t] = "done"]
    /\ UNCHANGED <<currentEpoch, totalDistributed, totalClaims, seqvars, mutex,
                   tclaim, targs, tret, tref, snapshot, arg, out, chain, marketvars>>

\* GetPool, line 346: take the mutex
GetPoolLock(t) ==
    /\ pc[t] = "idle"
    /\ targs[t].call = "GetAmountPerPerson"
    /\ CanLock(mutex)
    /\ mutex' = t
    /\ pc' = [pc EXCEPT ![t] = "find"]
    /\ UNCHANGED <<pools, currentEpoch, totalDistributed, totalClaims, seqvars,
                   tclaim, targs, tret, tref, snapshot, arg, out, chain, marketvars>>

\* GetPool, lines 348-352: the pointer to the pool, or nullptr
GetPoolFind(t) ==
    /\ pc[t] = "find"
    /\ tref' = [tref EXCEPT ![t] =
                   IF HasPool(pools, targs[t].epoch) THEN targs[t].epoch ELSE NoRef]
    /\ pc' = [pc EXCEPT ![t] = "return"]
    /\ UNCHANGED <<pools, currentEpoch, totalDistributed, totalClaims, seqvars,
                   mutex, tclaim, targs, tret, snapshot, arg, out, chain, marketvars>>

\* GetPool returns: its lock_guard goes out of scope
GetPoolReturn(t) ==
    /\ pc[t] = "return"
    /\ mutex' = IF mutex = t THEN NoThread ELSE mutex
    /\ pc' = [pc EXCEPT ![t] = "read"]
    /\ UNCHANGED <<pools, currentEpoch, totalDistributed, totalClaims, seqvars,
                   tclaim, targs, tret, tref, snapshot, arg, out, chain, marketvars>>

\* GetAmountPerPerson, lines 356-360: read isFinalized and amountPerPerson
\* through the pointer; when the pool was erased meanwhile the read is of
\* freed memory and yields any amount, or the process dies
ReadPool(t) ==
    /\ pc[t] = "read"
    /\ IF tref[t] = NoRef
       THEN /\ tret' = [tret EXCEPT ![t] = 0]
            /\ pc' = [pc EXCEPT ![t] = "done"]
       ELSE IF HasPool(pools, tref[t])
       THEN /\ tret' = [tret EXCEPT ![t] =
                           IF pools[tref[t]].isFinalized
                           THEN pools[tref[t]].amountPerPerson ELSE 0]
            /\ pc' = [pc EXCEPT ![t] = "done"]
       ELSE \/ /\ tret' \in {[tret EXCEPT ![t] = v] : v \in 0..MAX_UBI_PER_PERSON}
               /\ pc' = [pc EXCEPT ![t] = "done"]
            \/ /\ tret' = tret
               /\ pc' = Crash
    /\ UNCHANGED <<pools, currentEpoch, totalDistributed, totalClaims, seqvars,
                   mutex, tclaim, targs, tref, snapshot, arg, out, chain, marketvars>>

NextRace ==
    \/ \E t \in Threads : AddLock(t)
    \/ \E t \in Threads : AddGet(t)
    \/ \E t \in Threads : AddWrite(t)
    \/ \E t \in Threads : Unlock(t)
    \/ \E t \in Threads : PruneErase(t)
    \/ \E t \in Threads : GetPoolLock(t)
    \/ \E t \in Threads : GetPoolFind(t)
    \/ \E t \in Threads : GetPoolReturn(t)
    \/ \E t \in Threads : ReadPool(t)

SpecRace == InitRace /\ [][NextRace]_vars

(***************************************************************************)
(* UBIDistributor::Serialize and Deserialize.  The data is modelled field  *)
(* by field: one element per little-endian integer field or 32-byte        *)
(* nullifier hash, in the order the code writes them.                      *)
(***************************************************************************)
SERIAL_VERSION == 1
MAX_POOL_COUNT == 10000
MAX_NULLIFIER_COUNT == 1000000
HEADER_FIELDS == 3    \* version, current epoch, pool count
POOL_FIELDS == 10     \* the fields of a pool up to and including the nullifier count

\* the distributor's members
DistributorState ==
    [pools |-> pools, currentEpoch |-> currentEpoch,
     totalDistributed |-> totalDistributed, totalClaims |-> totalClaims]

\* a distributor as its constructor leaves it
FreshDistributor ==
    [pools |-> [e \in Epochs |-> NoPool], currentEpoch |-> 0,
     totalDistributed |-> 0, totalClaims |-> 0]

\* the order of a std::set of nullifiers
NullifierLess(a, b) == a.hash < b.hash \/ (a.hash = b.hash /\ a.epoch < b.epoch)

RECURSIVE NullifierHashesInOrder(_)
NullifierHashesInOrder(S) ==
    IF S = {} THEN <<>>
    ELSE LET first == CHOOSE a \in S : \A b \in S \ {a} : NullifierLess(a, b)
         IN <<first.hash>> \o NullifierHashesInOrder(S \ {first})

SerializePool(pool) ==
    <<pool.epoch, pool.totalPool, pool.eligibleCount, pool.amountPerPerson,
      pool.amountClaimed, pool.claimCount, IF pool.isFinalized THEN 1 ELSE 0,
      pool.endHeight, pool.claimDeadline, Cardinality(pool.usedNullifiers)>>
    \o NullifierHashesInOrder(pool.usedNullifiers)

\* the pools of pools_ in the order of the std::map, lowest epoch first
RECURSIVE SerializePools(_, _)
SerializePools(ps, S) ==
    IF S = {} THEN <<>>
    ELSE LET e == CHOOSE x \in S : \A y \in S : x <= y
         IN SerializePool(ps[e]) \o SerializePools(ps, S \ {e})

Serialize(d) ==
    LET present == {e \in DOMAIN d.pools : HasPool(d.pools, e)}
    IN <<SERIAL_VERSION, d.currentEpoch, Cardinality(present)>>
       \o SerializePools(d.pools, present)

\* the pool Deserialize builds from the fields that start at data[offset]
DeserializePool(data, offset) ==
    LET epochId == data[offset]
        nullifierCount == data[offset + 9]
    IN [epoch |-> epochId, totalPool |-> data[offset + 1],
        eligibleCount |-> data[offset + 2], amountPerPerson |-> data[offset + 3],
        amountClaimed |-> data[offset + 4], claimCount |-> data[offset + 5],
        isFinalized |-> data[offset + 6] # 0, endHeight |-> data[offset + 7],
        claimDeadline |-> data[offset + 8],
        usedNullifiers |-> {Nullifier(data[offset + 9 + n], epochId) :
                               n \in 1..nullifierCount}]

\* the loop over the pools: offset is the next field to read, p the number of
\* pools still to read, ps the pools read so far
RECURSIVE DeserializePools(_, _, _, _)
DeserializePools(data, offset, p, ps) ==
    IF p = 0 THEN [ok |-> TRUE, pools |-> ps]
    ELSE IF offset - 1 + POOL_FIELDS > Len(data) THEN [ok |-> FALSE, pools |-> ps]
    ELSE IF data[offset + 9] > MAX_NULLIFIER_COUNT THEN [ok |-> FALSE, pools |-> ps]
    ELSE IF offset - 1 + POOL_FIELDS + data[offset + 9] > Len(data)
         THEN [ok |-> FALSE, pools |-> ps]
    ELSE LET pool == DeserializePool(data, offset)
         IN DeserializePools(data, offset + POOL_FIELDS + data[offset + 9], p - 1,
                             (pool.epoch :> pool) @@ ps)

\* Deserialize called on distributor d: whether it returned true, and d after
Deserialize(d, data) ==
    IF Len(data) < HEADER_FIELDS THEN [ok |-> FALSE, d |-> d]
    ELSE IF data[1] # SERIAL_VERSION THEN [ok |-> FALSE, d |-> d]
    ELSE LET d1 == [d EXCEPT !.currentEpoch = data[2]]
         IN IF data[3] > MAX_POOL_COUNT THEN [ok |-> FALSE, d |-> d1]
            ELSE LET r == DeserializePools(data, HEADER_FIELDS + 1, data[3],
                                           [e \in DOMAIN d.pools |-> NoPool])
                 IN [ok |-> r.ok, d |-> [d1 EXCEPT !.pools = r.pools]]

(***************************************************************************)
(* UBIClaim::Serialize and UBIClaim::Deserialize.  An integer member is    *)
(* its little-endian bytes, as many as its type has; the data is one       *)
(* element per field, followed by the bytes of the proof.                  *)
(***************************************************************************)
EPOCH_ID_BYTES == 8       \* EpochId: Deserialize assembles it from 8 bytes
CLAIM_EPOCH_BYTES == 4    \* the bytes UBIClaim::Serialize writes of the epoch
INT_BYTES == 4            \* int submitHeight, uint32_t proofSize
AMOUNT_BYTES == 8         \* Amount
CLAIM_FIXED_FIELDS == 7   \* epoch .. amount: the 77 bytes before proofSize
BYTE_MAX == 255

Zeros(n) == [i \in 1..n |-> 0]

\* the n-byte integer whose byte i (1 is the lowest) is b, the others zero
ByteAt(n, i, b) == [j \in 1..n |-> IF j = i THEN b ELSE 0]

\* the n-byte integer -1
AllOnes(n) == [i \in 1..n |-> BYTE_MAX]

\* a small count as INT_BYTES little-endian bytes, and back
CountToBytes(k) == ByteAt(INT_BYTES, 1, k)
BytesToCount(b) == IF \A i \in 2..Len(b) : b[i] = 0 THEN b[1] ELSE MAX_NULLIFIER_COUNT

\* the enumerators of ClaimStatus in their order
ClaimStatusOrder ==
    <<"Pending", "Valid", "InvalidProof", "DoubleClaim", "IdentityNotFound",
      "EpochExpired", "EpochNotComplete", "PoolEmpty">>

StatusToByte(status) == (CHOOSE i \in 1..Len(ClaimStatusOrder) : ClaimStatusOrder[i] = status) - 1
ByteToStatus(b) == IF b + 1 \in 1..Len(ClaimStatusOrder) THEN ClaimStatusOrder[b + 1] ELSE "Unknown"

\* ZKProof::ToBytes and ZKProof::FromBytes: type tag, validity, the public
\* inputs with their count, the proof data
ProofTypes == <<"None", "UBIClaim">>
ProofToBytes(proof) ==
    <<(CHOOSE i \in 1..Len(ProofTypes) : ProofTypes[i] = proof.type) - 1,
      IF proof.isValid THEN 1 ELSE 0,
      Len(proof.publicInputs)>>
    \o proof.publicInputs
    \o <<IF proof.circuitOk THEN 1 ELSE 0>>

NullOpt == [nullopt |-> TRUE]

ProofFromBytes(b) ==
    IF Len(b) < 4 THEN NullOpt
    ELSE IF b[1] + 1 \notin 1..Len(ProofTypes) THEN NullOpt
    ELSE IF Len(b) # 4 + b[3] THEN NullOpt
    ELSE ZKProof(b[2] # 0, ProofTypes[b[1] + 1], SubSeq(b, 4, 3 + b[3]), b[Len(b)] # 0)

UBIClaimSerialize(c) ==
    LET proofBytes == ProofToBytes(c.proof)
    IN <<SubSeq(c.epoch, 1, CLAIM_EPOCH_BYTES), c.nullifier.hash, c.nullifier.epoch,
         c.recipient, c.submitHeight, StatusToByte(c.status), c.amount,
         CountToBytes(Len(proofBytes))>>
       \o proofBytes

UBIClaimDeserialize(data) ==
    IF Len(data) < CLAIM_FIXED_FIELDS THEN NullOpt
    ELSE IF Len(data) < CLAIM_FIXED_FIELDS + 1 THEN NullOpt
    ELSE LET proofSize == BytesToCount(data[CLAIM_FIXED_FIELDS + 1])
         IN IF CLAIM_FIXED_FIELDS + 1 + proofSize > Len(data) THEN NullOpt
            ELSE LET proofOpt == ProofFromBytes(
                         SubSeq(data, CLAIM_FIXED_FIELDS + 2,
                                CLAIM_FIXED_FIELDS + 1 + proofSize))
                 IN IF proofOpt = NullOpt THEN NullOpt
                    ELSE [epoch |-> data[1] \o Zeros(EPOCH_ID_BYTES - CLAIM_EPOCH_BYTES),
                          nullifier |-> Nullifier(data[2], data[3]),
                          recipient |-> data[4],
                          submitHeight |-> data[5],
                          status |-> ByteToStatus(data[6]),
                          amount |-> data[7],
                          proof |-> proofOpt]

\* epochs: 0, 1, 2^32 and the largest EpochId
EpochValues ==
    {Zeros(EPOCH_ID_BYTES), ByteAt(EPOCH_ID_BYTES, 1, 1),
     ByteAt(EPOCH_ID_BYTES, CLAIM_EPOCH_BYTES + 1, 1), AllOnes(EPOCH_ID_BYTES)}

\* claim objects with members at the ends of their types' ranges
ClaimObjects ==
    {[epoch |-> e, nullifier |-> Nullifier(nh, ne), recipient |-> 7,
      submitHeight |-> sh, status |-> st, amount |-> am, proof |-> pr] :
        e \in EpochValues, nh \in NullifierHashes,
        ne \in {Zeros(EPOCH_ID_BYTES), AllOnes(EPOCH_ID_BYTES)},
        sh \in {Zeros(INT_BYTES), ByteAt(INT_BYTES, 1, 5), AllOnes(INT_BYTES)},
        st \in {"Pending", "Valid", "InvalidProof"},
        am \in {Zeros(AMOUNT_BYTES), ByteAt(AMOUNT_BYTES, 1, MAX_UBI_PER_PERSON),
                AllOnes(AMOUNT_BYTES)},
        pr \in {EmptyProof, GoodProof(1, 0)}}

\* the distributor's variables
ubivars ==
    <<pools, currentEpoch, totalDistributed, totalClaims, claim, ret, validLog,
      mutex, pc, tclaim, targs, tret, tref, snapshot>>

\* a distributor nothing has been called on
Idle ==
    /\ pools = [e \in Epochs |-> NoPool]
    /\ currentEpoch = 0
    /\ totalDistributed = 0
    /\ totalClaims = 0
    /\ claim = UBIClaim(0, Nullifier(1, 0), EmptyProof)
    /\ ret = "none"
    /\ validLog = {}
    /\ mutex = NoThread
    /\ pc = [t \in Threads |-> "idle"]
    /\ tclaim = [t \in Threads |-> UBIClaim(0, Nullifier(1, 0), EmptyProof)]
    /\ targs = [t \in Threads |-> [root |-> 1, height |-> 0]]
    /\ tret = [t \in Threads |-> "none"]
    /\ tref = [t \in Threads |-> NoRef]
    /\ snapshot = [e \in Epochs |-> NoPool]

InitClaimCodec ==
    /\ MarketIdle
    /\ Idle
    /\ chain = <<>>
    /\ arg \in ClaimObjects
    /\ out = NoValue

\* serialize the claim and deserialize the bytes
ClaimRoundTrip ==
    /\ out = NoValue
    /\ out' = Returned(UBIClaimDeserialize(UBIClaimSerialize(arg)))
    /\ UNCHANGED <<arg, chain, ubivars, marketvars>>

NextClaimCodec == ClaimRoundTrip

SpecClaimCodec == InitClaimCodec /\ [][NextClaimCodec]_vars

(***************************************************************************)
(* consensus/pouw.cpp: compact targets.  A Hash256 is its 32 bytes, byte 0 *)
(* the least significant; a compact target is the uint32_t itself.         *)
(***************************************************************************)
HASH_BYTES == 32
BYTE == 256              \* 1 << 8
SIGN_BIT == 8388608      \* 0x00800000
WORD_MASK == 8388607     \* 0x007FFFFF
MAX_COMPACT_SIZE == 34

ByteIndexes == 0..(HASH_BYTES - 1)

\* target.SetNull()
NullHash == [i \in ByteIndexes |-> 0]

RECURSIVE Pow(_, _)
Pow(b, n) == IF n = 0 THEN 1 ELSE b * Pow(b, n - 1)

\* x >> n and (x << n) for n a number of bits that is a multiple of 8
ShiftRight(x, n) == x \div Pow(2, n)
ShiftLeft(x, n) == x * Pow(2, n)

CompactToBig(nCompact) ==
    LET size == ShiftRight(nCompact, 24) % BYTE
        word == nCompact % (WORD_MASK + 1)
    IN IF ShiftRight(nCompact, 23) % 2 = 1 THEN NullHash
       ELSE IF size > MAX_COMPACT_SIZE THEN NullHash
       ELSE IF size <= 3
       THEN LET w == ShiftRight(word, 8 * (3 - size))
            IN [i \in ByteIndexes |->
                   IF i = 0 THEN w % BYTE
                   ELSE IF i = 1 THEN ShiftRight(w, 8) % BYTE
                   ELSE IF i = 2 THEN ShiftRight(w, 16) % BYTE
                   ELSE 0]
       ELSE LET pos == size - 3
            IN IF pos <= 29
               THEN [i \in ByteIndexes |->
                        IF i = pos THEN word % BYTE
                        ELSE IF i = pos + 1 THEN ShiftRight(word, 8) % BYTE
                        ELSE IF i = pos + 2 THEN ShiftRight(word, 16) % BYTE
                        ELSE 0]
               ELSE NullHash

RECURSIVE PackBytes(_, _)
\* word = (word << 8) | target[i] for i from n - 1 down to 0
PackBytes(target, n) ==
    IF n = 0 THEN 0 ELSE ShiftLeft(target[n - 1], 8 * (n - 1)) + PackBytes(target, n - 1)

BigToCompact(target) ==
    IF \A i \in ByteIndexes : target[i] = 0 THEN 0
    ELSE LET msb_pos == CHOOSE i \in ByteIndexes :
                            target[i] # 0 /\ \A j \in ByteIndexes : j > i => target[j] = 0
             size == msb_pos + 1
         IN IF size <= 3
            THEN ShiftLeft(size, 24) + ShiftLeft(PackBytes(target, size), 8 * (3 - size))
            ELSE LET word == ShiftLeft(target[msb_pos], 16)
                             + ShiftLeft(target[msb_pos - 1], 8)
                             + target[msb_pos - 2]
                 IN IF word >= SIGN_BIT
                    THEN ShiftLeft(size + 1, 24) + ShiftRight(word, 8)
                    ELSE ShiftLeft(size, 24) + word

\* target > limit, compared byte by byte from byte 31 down
RECURSIVE ExceedsFrom(_, _, _)
ExceedsFrom(target, limit, i) ==
    IF i < 0 THEN FALSE
    ELSE IF target[i] > limit[i] THEN TRUE
    ELSE IF target[i] < limit[i] THEN FALSE
    ELSE ExceedsFrom(target, limit, i - 1)

ExceedsLimit(target, limit) == ExceedsFrom(target, limit, HASH_BYTES - 1)

\* params.powLimit: the four highest bytes zero, the others 0xFF
POW_LIMIT_ZERO_BYTES == 4
powLimit == [i \in ByteIndexes |-> IF i >= HASH_BYTES - POW_LIMIT_ZERO_BYTES THEN 0 ELSE BYTE_MAX]

\* targets with their highest byte at position p and up to four non-zero bytes
TargetAt(p, top, mid, low, extra) ==
    [i \in ByteIndexes |->
        IF i = p THEN top
        ELSE IF i = p - 1 THEN mid
        ELSE IF i = p - 2 THEN low
        ELSE IF i = p - 3 THEN extra
        ELSE 0]

MsbPositions == {0, 1, 2, 3, 4, 27, 28, 31}

Targets ==
    {TargetAt(p, a, b, c, d) :
        p \in MsbPositions, a \in {0, 1, 127, 128, BYTE_MAX}, b \in {0, BYTE_MAX},
        c \in {0, 1}, d \in {0, 1}}

InitCompact ==
    /\ MarketIdle
    /\ Idle
    /\ chain = <<>>
    /\ arg \in Targets
    /\ out = NoValue

\* BigToCompact of the target, and CompactToBig of the result
CompactRoundTrip ==
    /\ out = NoValue
    /\ out' = Returned([compact |-> BigToCompact(arg),
                        expanded |-> CompactToBig(BigToCompact(arg))])
    /\ UNCHANGED <<arg, chain, ubivars, marketvars>>

NextCompact == CompactRoundTrip

SpecCompact == InitCompact /\ [][NextCompact]_vars

(***************************************************************************)
(* consensus/pouw.cpp: difficulty adjustment.  A BlockIndex is a record    *)
(* of nHeight, nTime and nBits; the network parameters are a record.       *)
(***************************************************************************)
MIN_MANTISSA == 32768    \* 0x008000
MAX_EXPONENT == 32

\* network parameters: the two flags and the limit vary per network
TARGET_SPACING == 2
TARGET_TIMESPAN == 16
Params(noRetargeting, allowMinDifficulty, limit) ==
    [fPowNoRetargeting |-> noRetargeting,
     fAllowMinDifficultyBlocks |-> allowMinDifficulty,
     nPowTargetSpacing |-> TARGET_SPACING,
     nPowTargetTimespan |-> TARGET_TIMESPAN,
     powLimit |-> limit]

\* a params.powLimit of 32 significant bytes: 0x7fff...ff
easyPowLimit == [i \in ByteIndexes |-> IF i = HASH_BYTES - 1 THEN BYTE \div 2 - 1 ELSE BYTE_MAX]

PowLimits == {powLimit, easyPowLimit}

\* params.DifficultyAdjustmentInterval()
DifficultyAdjustmentInterval(params) ==
    params.nPowTargetTimespan \div params.nPowTargetSpacing

BlockIndex(height, time, bits) == [nHeight |-> height, nTime |-> time, nBits |-> bits]

\* while (nScaledMantissa > 0x007FFFFF) { nScaledMantissa >>= 8; nExponent++; }
RECURSIVE ShrinkMantissa(_)
ShrinkMantissa(x) ==
    IF x.mantissa > WORD_MASK
    THEN ShrinkMantissa([mantissa |-> ShiftRight(x.mantissa, 8), exponent |-> x.exponent + 1])
    ELSE x

\* while (nScaledMantissa < 0x008000 && nExponent > 1) { nScaledMantissa <<= 8; nExponent--; }
RECURSIVE GrowMantissa(_)
GrowMantissa(x) ==
    IF x.mantissa < MIN_MANTISSA /\ x.exponent > 1
    THEN GrowMantissa([mantissa |-> ShiftLeft(x.mantissa, 8), exponent |-> x.exponent - 1])
    ELSE x

CalculateNextWorkRequired(pindexLast, nFirstBlockTime, params) ==
    IF params.fPowNoRetargeting THEN pindexLast.nBits
    ELSE
    LET nTargetTimespan == params.nPowTargetTimespan
        observed == pindexLast.nTime - nFirstBlockTime
        raised == IF observed < nTargetTimespan \div 4 THEN nTargetTimespan \div 4 ELSE observed
        nActualTimespan == IF raised > nTargetTimespan * 4 THEN nTargetTimespan * 4 ELSE raised
        nOldBits == pindexLast.nBits
        scaled == ((nOldBits % (WORD_MASK + 1)) * nActualTimespan) \div nTargetTimespan
        norm == GrowMantissa(ShrinkMantissa(
                    [mantissa |-> scaled, exponent |-> ShiftRight(nOldBits, 24) % BYTE]))
        nExponent == IF norm.exponent > MAX_EXPONENT THEN MAX_EXPONENT
                     ELSE IF norm.exponent < 1 THEN 1 ELSE norm.exponent
        nNewBits == IF ShiftRight(norm.mantissa, 23) % 2 = 1
                    THEN ShiftLeft(nExponent + 1, 24) + (ShiftRight(norm.mantissa, 8) % (WORD_MASK + 1))
                    ELSE ShiftLeft(nExponent, 24) + (norm.mantissa % (WORD_MASK + 1))
    IN IF ExceedsLimit(CompactToBig(nNewBits), params.powLimit)
       THEN BigToCompact(params.powLimit)
       ELSE nNewBits

\* previous nBits: sizes from 3 bytes up to 32, mantissas from 0 to the largest
PrevBits ==
    {ShiftLeft(e, 24) + m :
        e \in {3, 4, 6, 27, 28, MAX_EXPONENT},
        m \in {0, 2, 3, 255, MIN_MANTISSA, 65535, 65536, 1193046, WORD_MASK}}

\* observed timespans: negative, zero, a quarter, once, four times, huge
Timespans ==
    {-5, 0, TARGET_TIMESPAN \div 4, TARGET_TIMESPAN \div 2, TARGET_TIMESPAN,
     TARGET_TIMESPAN + 1, 2 * TARGET_TIMESPAN, 4 * TARGET_TIMESPAN, 1000}

\* the previous block's nBits encode a target that is not above the limit
InitRetarget ==
    /\ MarketIdle
    /\ Idle
    /\ chain = <<>>
    /\ arg \in {a \in [nBits : PrevBits, timespan : Timespans, limit : PowLimits] :
                   ~ExceedsLimit(CompactToBig(a.nBits), a.limit)}
    /\ out = NoValue

\* the retarget after a period that took arg.timespan
Retarget ==
    /\ out = NoValue
    /\ out' = Returned(CalculateNextWorkRequired(BlockIndex(0, arg.timespan, arg.nBits), 0,
                                                 Params(FALSE, TRUE, arg.limit)))
    /\ UNCHANGED <<arg, chain, ubivars, marketvars>>

NextRetarget == Retarget

SpecRetarget == InitRetarget /\ [][NextRetarget]_vars

(***************************************************************************)
(* consensus/pouw.cpp: GetNextWorkRequired over a chain of block indexes.  *)
(* pindexLast is the last element of the chain, pprev of chain[i] is       *)
(* chain[i - 1], and the first element has no pprev.                       *)
(***************************************************************************)
MaxHeight == 9

NoHeader == [present |-> FALSE]
BlockHeader(time) == [present |-> TRUE, nTime |-> time]

\* while (pindex->pprev != nullptr && pindex->nHeight % interval != 0 &&
\*        pindex->nBits == BigToCompact(params.powLimit)) pindex = pindex->pprev;
RECURSIVE WalkBack(_, _, _)
WalkBack(blocks, i, params) ==
    IF /\ i > 1
       /\ blocks[i].nHeight % DifficultyAdjustmentInterval(params) # 0
       /\ blocks[i].nBits = BigToCompact(params.powLimit)
    THEN WalkBack(blocks, i - 1, params)
    ELSE i

GetNextWorkRequired(blocks, pblock, params) ==
    IF blocks = <<>> THEN BigToCompact(params.powLimit)
    ELSE
    LET pindexLast == blocks[Len(blocks)]
        difficultyAdjustmentInterval == DifficultyAdjustmentInterval(params)
        nextHeight == pindexLast.nHeight + 1
        \* pindexFirst after difficultyAdjustmentInterval - 1 steps back; below 1 it is null
        first == Len(blocks) - (difficultyAdjustmentInterval - 1)
    IN IF params.fPowNoRetargeting THEN pindexLast.nBits
       ELSE IF params.fAllowMinDifficultyBlocks /\ pblock.present
       THEN IF pblock.nTime > pindexLast.nTime + params.nPowTargetSpacing * 2
            THEN BigToCompact(params.powLimit)
            ELSE blocks[WalkBack(blocks, Len(blocks), params)].nBits
       ELSE IF nextHeight % difficultyAdjustmentInterval # 0 THEN pindexLast.nBits
       ELSE IF first < 1 THEN pindexLast.nBits
       ELSE CalculateNextWorkRequired(pindexLast, blocks[first].nTime, params)

\* the genesis block: a target of one byte less than powLimit
genesisBits ==
    BigToCompact(TargetAt(HASH_BYTES - POW_LIMIT_ZERO_BYTES - 2, BYTE_MAX, BYTE_MAX, 0, 0))

\* the test network: retargeting on, min-difficulty blocks allowed
TestNet == Params(FALSE, TRUE, powLimit)

\* header times after the parent: on schedule, at the edge of a gap, a gap
BlockDelays == {TARGET_SPACING, 2 * TARGET_SPACING, 2 * TARGET_SPACING + 1}

InitChain ==
    /\ MarketIdle
    /\ Idle
    /\ arg = NoValue
    /\ out = NoValue
    /\ chain = <<BlockIndex(0, 0, genesisBits)>>

\* a block whose header is delay after its parent is accepted with the
\* nBits GetNextWorkRequired asks for
ConnectBlock(delay) ==
    /\ Len(chain) <= MaxHeight
    /\ LET pindexLast == chain[Len(chain)]
           pblock == BlockHeader(pindexLast.nTime + delay)
           nBits == GetNextWorkRequired(chain, pblock, TestNet)
       IN /\ chain' = Append(chain, BlockIndex(pindexLast.nHeight + 1, pblock.nTime, nBits))
          /\ out' = Returned(nBits)
    /\ UNCHANGED <<arg, ubivars, marketvars>>

NextChain == \E delay \in BlockDelays : ConnectBlock(delay)

SpecChain == InitChain /\ [][NextChain]_vars

(***************************************************************************)
(* Arithmetic for the bounds on a retarget: numbers of one more byte than  *)
(* a Hash256, so that four times a target fits.  A wide number is the      *)
(* sequence of its bytes, lowest first.                                    *)
(***************************************************************************)
WIDE_BYTES == HASH_BYTES + 1

RECURSIVE WidenFrom(_, _)
WidenFrom(t, i) ==
    IF i >= HASH_BYTES THEN <<0>> ELSE <<t[i]>> \o WidenFrom(t, i + 1)

Widen(t) == WidenFrom(t, 0)

\* the bytes of a + b from byte i on, given the carry into byte i
RECURSIVE AddFrom(_, _, _, _)
AddFrom(a, b, i, carry) ==
    IF i > WIDE_BYTES THEN <<>>
    ELSE <<(a[i] + b[i] + carry) % BYTE>> \o AddFrom(a, b, i + 1, (a[i] + b[i] + carry) \div BYTE)

AddWide(a, b) == AddFrom(a, b, 1, 0)

Times4(a) == AddWide(AddWide(a, a), AddWide(a, a))

\* one unit of the mantissa of nBits, as a wide number
MantissaUnit(nBits) ==
    [i \in 1..WIDE_BYTES |-> IF i = (ShiftRight(nBits, 24) % BYTE) - 2 THEN 1 ELSE 0]

\* a > b for wide numbers, compared from the highest byte down
RECURSIVE ExceedsWide(_, _, _)
ExceedsWide(a, b, i) ==
    IF i < 1 THEN FALSE
    ELSE IF a[i] > b[i] THEN TRUE
    ELSE IF a[i] < b[i] THEN FALSE
    ELSE ExceedsWide(a, b, i - 1)

\* a <= 4 * b for wide numbers a and b
AtMostFourTimes(a, b) == ~ExceedsWide(a, Times4(b), WIDE_BYTES)

(***************************************************************************)
(* consensus/pouw.cpp: block subsidy and its five splits.  Amounts are in  *)
(* units of 250 base units, so that amount * 100 stays a machine integer   *)
(* of the checker; the code's 64-bit products stay far below 2^63.         *)
(***************************************************************************)
INITIAL_REWARD == 20000000
HALVING_INTERVAL == 3
MAX_HALVINGS == 64
PERCENT == 100
MaxSubsidyHeight == 200

\* x >> n for any number of bits n
RECURSIVE ShiftRightBits(_, _)
ShiftRightBits(x, n) == IF n = 0 THEN x ELSE ShiftRightBits(x \div 2, n - 1)

\* the reward fields of the network parameters; pct is the five percentages
RewardParams(pct) ==
    [nInitialBlockReward |-> INITIAL_REWARD,
     nSubsidyHalvingInterval |-> HALVING_INTERVAL,
     nUBIPercentage |-> pct[1],
     nWorkRewardPercentage |-> pct[2],
     nContributionRewardPercentage |-> pct[3],
     nEcosystemPercentage |-> pct[4],
     nStabilityReservePercentage |-> pct[5]]

\* the subsidy schedule without the halving
GetBlockSubsidyNeverHalved(nHeight, params) ==
    IF nHeight \div params.nSubsidyHalvingInterval >= MAX_HALVINGS THEN 0
    ELSE params.nInitialBlockReward

GetBlockSubsidy(nHeight, params) ==
    IF nHeight = 0 THEN params.nInitialBlockReward
    ELSE LET halvings == nHeight \div params.nSubsidyHalvingInterval
         IN IF halvings >= MAX_HALVINGS THEN 0
            ELSE ShiftRightBits(params.nInitialBlockReward, halvings)

\* a split taken as a tenth instead of a hundredth of the product
CalculateUBIRewardTenths(blockReward, params) ==
    (blockReward * params.nUBIPercentage) \div (PERCENT \div 10)

CalculateUBIReward(blockReward, params) ==
    (blockReward * params.nUBIPercentage) \div PERCENT

CalculateWorkReward(blockReward, params) ==
    (blockReward * params.nWorkRewardPercentage) \div PERCENT

CalculateContributionReward(blockReward, params) ==
    (blockReward * params.nContributionRewardPercentage) \div PERCENT

CalculateEcosystemReward(blockReward, params) ==
    (blockReward * params.nEcosystemPercentage) \div PERCENT

CalculateStabilityReserve(blockReward, params) ==
    (blockReward * params.nStabilityReservePercentage) \div PERCENT

\* the five percentages of a network: they add up to 100
SplitPercentages ==
    {pct \in [1..5 -> {5, 10, 15, 30, 40}] :
        pct[1] + pct[2] + pct[3] + pct[4] + pct[5] = PERCENT}

SubsidyHeights == 0..MaxSubsidyHeight

InitSubsidy ==
    /\ MarketIdle
    /\ Idle
    /\ chain = <<>>
    /\ arg \in [height : SubsidyHeights, pct : SplitPercentages]
    /\ out = NoValue

\* the subsidy of the block at arg.height and its five splits
SplitSubsidy ==
    /\ out = NoValue
    /\ LET params == RewardParams(arg.pct)
           subsidy == GetBlockSubsidy(arg.height, params)
       IN out' = Returned([subsidy |-> subsidy,
                           ubi |-> CalculateUBIReward(subsidy, params),
                           work |-> CalculateWorkReward(subsidy, params),
                           contribution |-> CalculateContributionReward(subsidy, params),
                           ecosystem |-> CalculateEcosystemReward(subsidy, params),
                           reserve |-> CalculateStabilityReserve(subsidy, params)])
    /\ UNCHANGED <<arg, chain, ubivars, marketvars>>

NextSubsidy == SplitSubsidy

SpecSubsidy == InitSubsidy /\ [][NextSubsidy]_vars

(***************************************************************************)
(* consensus/pouw.cpp: the PoUW commitment of a coinbase and               *)
(* VerifyUsefulWork.  A script is the sequence of its bytes; the byte the  *)
(* code reads at index i is element i + 1.                                 *)
(***************************************************************************)
POUW_COMMITMENT_MAGIC == <<83, 72, 82, 87>>    \* 'S', 'H', 'R', 'W'
POUW_COMMITMENT_MAGIC_SIZE == 4
POUW_COMMITMENT_HASH_SIZE == 32
POUW_COMMITMENT_MIN_SIZE == POUW_COMMITMENT_MAGIC_SIZE + POUW_COMMITMENT_HASH_SIZE
OP_RETURN == 106
MAX_PUSH_OPCODE == 75
MIN_TRANSITIONS == 8
BINDING_BYTES == 4

Some(v) == [nullopt |-> FALSE, value |-> v]

\* memcmp(script.data() + i, POUW_COMMITMENT_MAGIC, 4) == 0
MagicAt(script, i) ==
    \A k \in 1..POUW_COMMITMENT_MAGIC_SIZE : script[i + k] = POUW_COMMITMENT_MAGIC[k]

\* memcpy(commitmentHash.data(), script.data() + i + 4, 32)
HashAt(script, i) ==
    [k \in ByteIndexes |-> script[i + POUW_COMMITMENT_MAGIC_SIZE + k + 1]]

\* for (i = 0; i + POUW_COMMITMENT_MIN_SIZE <= scriptSig.size(); ++i)
RECURSIVE ScanScriptSig(_, _)
ScanScriptSig(scriptSig, i) ==
    IF i + POUW_COMMITMENT_MIN_SIZE > Len(scriptSig) THEN NullOpt
    ELSE IF MagicAt(scriptSig, i) THEN Some(HashAt(scriptSig, i))
    ELSE ScanScriptSig(scriptSig, i + 1)

\* for (i = 0; i + POUW_COMMITMENT_MIN_SIZE + 1 <= scriptPubKey.size(); ++i)
RECURSIVE ScanScriptPubKey(_, _)
ScanScriptPubKey(scriptPubKey, i) ==
    IF i + POUW_COMMITMENT_MIN_SIZE + 1 > Len(scriptPubKey) THEN NullOpt
    ELSE IF scriptPubKey[i + 1] # OP_RETURN THEN ScanScriptPubKey(scriptPubKey, i + 1)
    ELSE
    LET dataStart == IF /\ i + 1 < Len(scriptPubKey)
                        /\ scriptPubKey[i + 2] <= MAX_PUSH_OPCODE
                     THEN i + 2 ELSE i + 1
    IN IF /\ dataStart + POUW_COMMITMENT_MIN_SIZE <= Len(scriptPubKey)
          /\ MagicAt(scriptPubKey, dataStart)
       THEN Some(HashAt(scriptPubKey, dataStart))
       ELSE ScanScriptPubKey(scriptPubKey, i + 1)

\* for (const auto& output : coinbase.vout)
RECURSIVE ScanOutputs(_, _)
ScanOutputs(vout, n) ==
    IF n > Len(vout) THEN NullOpt
    ELSE LET found == ScanScriptPubKey(vout[n].scriptPubKey, 0)
         IN IF found # NullOpt THEN found ELSE ScanOutputs(vout, n + 1)

ExtractPoUWCommitment(coinbase) ==
    IF coinbase.vin = <<>> THEN NullOpt
    ELSE LET found == ScanScriptSig(coinbase.vin[1].scriptSig, 0)
         IN IF found # NullOpt THEN found ELSE ScanOutputs(coinbase.vout, 1)

\* a ^ b for two numbers of bits bits
RECURSIVE Xor(_, _, _)
Xor(a, b, bits) ==
    IF bits = 0 THEN 0
    ELSE (((a % 2) + (b % 2)) % 2) + 2 * Xor(a \div 2, b \div 2, bits - 1)

\* the loop that counts in the uint8_t uniqueBytes the bytes that differ
\* from lastByte
RECURSIVE CountTransitions(_, _, _, _)
CountTransitions(commitment, i, lastByte, uniqueBytes) ==
    IF i >= HASH_BYTES THEN uniqueBytes
    ELSE IF commitment[i] # lastByte
         THEN CountTransitions(commitment, i + 1, commitment[i], (uniqueBytes + 1) % BYTE)
         ELSE CountTransitions(commitment, i + 1, lastByte, uniqueBytes)

\* the uint32_t binding, as its four bytes from the lowest
Binding(commitment, hashPrevBlock) ==
    [i \in 0..(BINDING_BYTES - 1) |-> Xor(commitment[i], hashPrevBlock[i], 8)]

\* if (params.fPoUWOptional) return true; if (params.fPowNoRetargeting) return true;
MissingCommitmentAllowed(params) ==
    IF params.fPoUWOptional THEN TRUE
    ELSE IF params.fPowNoRetargeting THEN TRUE
    ELSE FALSE

\* the binding check without the all-ones case
BindingRejectedOnlyWhenZero(binding) ==
    \A i \in DOMAIN binding : binding[i] = 0

\* if (binding == 0 || binding == 0xFFFFFFFF) return false;
BindingRejected(binding) ==
    \/ \A i \in DOMAIN binding : binding[i] = 0
    \/ \A i \in DOMAIN binding : binding[i] = BYTE_MAX

VerifyUsefulWork(block, params) ==
    IF block.vtx = <<>> THEN FALSE
    ELSE
    LET coinbase == block.vtx[1]
        commitmentOpt == ExtractPoUWCommitment(coinbase)
        commitment == commitmentOpt.value
    IN IF ~coinbase.isCoinBase THEN FALSE
       ELSE IF block.hashPrevBlock = NullHash THEN TRUE
       ELSE IF commitmentOpt = NullOpt THEN MissingCommitmentAllowed(params)
       ELSE IF \A i \in ByteIndexes : commitment[i] = 0 THEN FALSE
       ELSE IF CountTransitions(commitment, 1, commitment[0], 0) < MIN_TRANSITIONS THEN FALSE
       ELSE IF BindingRejected(Binding(commitment, block.hashPrevBlock)) THEN FALSE
       ELSE IF \A i \in ByteIndexes : commitment[i] = block.hashPrevBlock[i] THEN FALSE
       ELSE TRUE

\* hashes with exactly k byte-to-byte transitions between the bytes a and b
Pattern(k, a, b) ==
    [i \in ByteIndexes |->
        IF i <= k THEN (IF i % 2 = 0 THEN a ELSE b)
        ELSE (IF k % 2 = 0 THEN a ELSE b)]

\* h with its first four bytes kept, copied from prev, or the complement of prev's
WithPrefix(h, prev, mode) ==
    [i \in ByteIndexes |->
        IF i >= BINDING_BYTES \/ mode = "keep" THEN h[i]
        ELSE IF mode = "copy" THEN prev[i]
        ELSE BYTE_MAX - prev[i]]

PrevHashes == {NullHash, Pattern(9, 17, 34), Pattern(0, 5, 5)}

BaseCommitments(prev) ==
    {NullHash, Pattern(0, 7, 7), Pattern(7, 1, 2), Pattern(8, 1, 2), Pattern(31, 1, 2), prev}

\* where the coinbase carries the commitment
CarryingPlaces == {"sig", "sigInside", "out", "outPush", "outSecond", "both"}
Places == CarryingPlaces \cup {"none", "short"}

BlockShapes == {"ok", "empty", "notCoinBase"}

RECURSIVE HashBytes(_, _)
HashBytes(h, i) == IF i >= HASH_BYTES THEN <<>> ELSE <<h[i]>> \o HashBytes(h, i + 1)

Commitment(h) == POUW_COMMITMENT_MAGIC \o HashBytes(h, 0)

\* bytes that are neither the magic nor OP_RETURN
Junk == <<3, 1, 83, 72, 9>>

ScriptSigOf(place, h) ==
    IF place \in {"sig", "both"} THEN Commitment(h)
    ELSE IF place = "sigInside" THEN Junk \o Commitment(h) \o Junk
    ELSE IF place = "short" THEN Junk \o SubSeq(Commitment(h), 1, POUW_COMMITMENT_MIN_SIZE - 1)
    ELSE Junk

VoutOf(place, h) ==
    IF place = "out" THEN <<[scriptPubKey |-> <<OP_RETURN>> \o Commitment(h)]>>
    ELSE IF place = "outPush"
    THEN <<[scriptPubKey |-> Junk \o <<OP_RETURN, POUW_COMMITMENT_MIN_SIZE>> \o Commitment(h)]>>
    ELSE IF place = "outSecond"
    THEN <<[scriptPubKey |-> Junk], [scriptPubKey |-> <<OP_RETURN>> \o Commitment(h)]>>
    ELSE IF place = "both"
    THEN <<[scriptPubKey |-> <<OP_RETURN>> \o Commitment(Pattern(12, 3, 4))]>>
    ELSE <<[scriptPubKey |-> Junk]>>

\* the block of an input: its coinbase carries a.h at a.place
BlockOf(a) ==
    [hashPrevBlock |-> a.prev,
     vtx |-> IF a.shape = "empty" THEN <<>>
             ELSE <<[isCoinBase |-> a.shape = "ok",
                     vin |-> <<[scriptSig |-> ScriptSigOf(a.place, a.h)]>>,
                     vout |-> VoutOf(a.place, a.h)]>>]

PoUWParams(a) == [fPoUWOptional |-> a.optional, fPowNoRetargeting |-> a.noRetargeting]

UsefulWorkInputs ==
    {a \in [prev : PrevHashes, mode : {"keep", "copy", "flip"}, place : Places,
             shape : BlockShapes, optional : BOOLEAN, noRetargeting : BOOLEAN] :
        a.shape # "ok" => (a.mode = "keep" /\ a.place = "sig")}

InitUsefulWork ==
    /\ MarketIdle
    /\ Idle
    /\ chain = <<>>
    /\ \E a \in UsefulWorkInputs :
          \E h \in BaseCommitments(a.prev) :
             arg = [prev |-> a.prev, h |-> WithPrefix(h, a.prev, a.mode), place |-> a.place,
                    shape |-> a.shape, optional |-> a.optional,
                    noRetargeting |-> a.noRetargeting]
    /\ out = NoValue

CheckUsefulWork ==
    /\ out = NoValue
    /\ out' = Returned(VerifyUsefulWork(BlockOf(arg), PoUWParams(arg)))
    /\ UNCHANGED <<arg, chain, ubivars, marketvars>>

NextUsefulWork == CheckUsefulWork

SpecUsefulWork == InitUsefulWork /\ [][NextUsefulWork]_vars

(***************************************************************************)
(* marketplace/verifier.cpp: the verifiers.  A Hash256 is given by two of  *)
(* its bytes, byte 31 (the highest) and byte 7 (the highest of the first   *)
(* eight); its other bytes are zero.  The uint64_t read from the first     *)
(* eight bytes is therefore prefix * 2^56.  Result bytes are given by an   *)
(* id (0 is the empty vector) and the properties the checks read.          *)
(***************************************************************************)
SCORE_MAX == 1000000
TARGET_BYTES == 32
PREFIX_SHIFT == 56

Hash256(high, prefix) == [high |-> high, prefix |-> prefix]

\* operator< of Hash256: unsigned, the highest byte first
HashLess(a, b) == a.high < b.high \/ (a.high = b.high /\ a.prefix < b.prefix)

\* SHA256 of the result bytes with the given id
SHA256Hash(result) ==
    IF result.id = 1 THEN Hash256(0, 65)
    ELSE IF result.id = 2 THEN Hash256(1, 1)
    ELSE IF result.id = 3 THEN Hash256(0, 0)
    ELSE Hash256(2, 128)

\* b^n mod m
RECURSIVE PowMod(_, _, _)
PowMod(b, n, m) == IF n = 0 THEN 1 % m ELSE (b * PowMod(b, n - 1, m)) % m

\* a default-constructed VerificationDetails
NewDetails == [result |-> "ERROR", score |-> 0, meetsRequirements |-> FALSE, checks |-> <<>>]

AddCheck(details, name, passed) ==
    [details EXCEPT !.checks = Append(@, [name |-> name, passed |-> passed])]

\* the loop over the checks that looks at the first check only
FirstPassed(checks) == checks = <<>> \/ checks[1].passed

\* for (const auto& check : details.checks) if (!check.second) { allPassed = false; break; }
AllPassed(checks) == \A i \in DOMAIN checks : checks[i].passed

Malformed == [NewDetails EXCEPT !.result = "MALFORMED"]

\* details.result and details.meetsRequirements from the checks
Conclude(details, meets) ==
    [details EXCEPT !.result = IF AllPassed(details.checks) THEN "VALID" ELSE "INVALID",
                    !.meetsRequirements = meets]

\* the body the four QuickValidate methods share, for the verifier of type
QuickValidate(type, problem, solution) ==
    IF problem.type # type THEN FALSE
    ELSE IF solution.result.id = 0 THEN FALSE
    ELSE IF solution.problemId # problem.id THEN FALSE
    ELSE TRUE

\* static_cast<uint32_t>((double)(targetValue - hashValue) / targetValue * 1000000)
\* with the uint64_t difference taken modulo 2^64
HashPowScore(resultHash, target) ==
    (((target.prefix - resultHash.prefix) % BYTE) * SCORE_MAX) \div target.prefix

HashPowVerify(problem, solution) ==
    IF ~QuickValidate("HASH_POW", problem, solution) THEN Malformed
    ELSE IF problem.inputData.size < TARGET_BYTES THEN Malformed
    ELSE
    LET target == problem.inputData.target
        resultHash == solution.resultHash
        below == AddCheck(NewDetails, "hash_below_target", HashLess(resultHash, target))
        valid == AddCheck(below, "hash_valid", SHA256Hash(solution.result) = resultHash)
        scored == IF target.prefix > 0
                  THEN [valid EXCEPT !.score = HashPowScore(resultHash, target)]
                  ELSE valid
    IN Conclude(scored, AllPassed(scored.checks))

\* min(1000000, 1000000 - (hashValue % 1000000))
GenericScore(resultHash) ==
    Min(SCORE_MAX,
        SCORE_MAX - ((resultHash.prefix * PowMod(2, PREFIX_SHIFT, SCORE_MAX)) % SCORE_MAX))

GenericVerify(type, problem, solution) ==
    IF ~QuickValidate(type, problem, solution) THEN Malformed
    ELSE
    LET nonEmpty == AddCheck(NewDetails, "result_non_empty", solution.result.id # 0)
        valid == AddCheck(nonEmpty, "hash_valid",
                          SHA256Hash(solution.result) = solution.resultHash)
        solver == AddCheck(valid, "solver_specified", solution.solver # "")
        match == AddCheck(solver, "problem_match", solution.problemId = problem.id)
        scored == [match EXCEPT !.score = GenericScore(solution.resultHash)]
    IN Conclude(scored, AllPassed(scored.checks))

\* MLTrainingVerifier::Impl
INF_EXPONENT == 255
MAX_ITERATIONS == 1000000000
MAX_RESULT_SIZE == 10485760    \* 10 * 1024 * 1024
FACTOR_MODULUS == 100000
ACCURACY_TOLERANCE == 100000
ACCURACY_CAP == 950000

Max(a, b) == IF a > b THEN a ELSE b
Abs(x) == IF x < 0 THEN -x ELSE x

\* result.exponents: the exponent fields of the float32 words of the result
VerifyWeightFormat(result) ==
    IF result.size = 0 THEN FALSE
    ELSE IF result.size % 4 # 0 /\ result.size % 8 # 0 THEN FALSE
    ELSE IF result.size % 4 = 0 /\ INF_EXPONENT \in result.exponents THEN FALSE
    ELSE TRUE

\* result.aboveMax: some float32 word of the result has |value| > maxMagnitude
VerifyWeightBounds(result) ==
    IF result.size % 4 # 0 THEN TRUE
    ELSE IF result.aboveMax THEN FALSE
    ELSE TRUE

\* intermediates.matching: how many of the first four bytes of the folded
\* chain hash equal those of the result hash
VerifyIntermediateChain(intermediates, resultHash) ==
    IF intermediates.count = 0 THEN FALSE
    ELSE intermediates.matching >= 1

\* verificationData.word: the uint32_t read from SHA256(SHA256(weights) ||
\* SHA256(verificationData))
ComputeValidationAccuracy(weights, verificationData, reportedAccuracy) ==
    IF verificationData.size = 0 \/ weights.size = 0 THEN reportedAccuracy
    ELSE
    LET verificationFactor == verificationData.word % FACTOR_MODULUS
        expectedAccuracy == verificationFactor * 10
        diff == reportedAccuracy - expectedAccuracy
    IN IF Abs(diff) <= ACCURACY_TOLERANCE THEN reportedAccuracy
       ELSE Min(expectedAccuracy, ACCURACY_CAP)

MLTrainingVerify(minAccuracy, problem, solution) ==
    IF ~QuickValidate("ML_TRAINING", problem, solution) THEN Malformed
    ELSE
    LET result == solution.result
        c1 == AddCheck(NewDetails, "valid_structure", solution.isValid)
        c2 == AddCheck(c1, "weight_format_valid", VerifyWeightFormat(result))
        c3 == AddCheck(c2, "weight_bounds_valid", VerifyWeightBounds(result))
        c4 == AddCheck(c3, "iterations_valid",
                       solution.iterations > 0 /\ solution.iterations < MAX_ITERATIONS)
        c5 == AddCheck(c4, "result_size_valid",
                       /\ result.size > 0
                       /\ result.size <= Max(problem.inputData.size * 100, MAX_RESULT_SIZE))
        c6 == AddCheck(c5, "intermediate_chain_valid",
                       VerifyIntermediateChain(solution.intermediates, solution.resultHash))
        verifiedAccuracy == ComputeValidationAccuracy(result, problem.verificationData,
                                                      solution.accuracy)
        c7 == AddCheck(c6, "accuracy_threshold", verifiedAccuracy >= minAccuracy)
        scored == [c7 EXCEPT !.score = verifiedAccuracy]
    IN Conclude(scored, AllPassed(scored.checks))

\* LinearAlgebraVerifier::Impl
DIMENSIONS_BYTES == 16
MAX_DIMENSION == 100000
SCORE_DIMENSIONS == 200000
SCORE_HASH == 200000
SCORE_SPOT_CHECK == 400000
SCORE_INTERMEDIATES == 200000
SCORE_HASH_ONLY == 600000
SCORE_UNVERIFIED == 300000
SCORE_FLOOR == 500000

ParseMatrixDimensions(input) ==
    IF input.size < DIMENSIONS_BYTES THEN FALSE
    ELSE IF input.rowsA = 0 \/ input.colsA = 0 \/ input.rowsB = 0 \/ input.colsB = 0 THEN FALSE
    ELSE IF \/ input.rowsA > MAX_DIMENSION \/ input.colsA > MAX_DIMENSION
            \/ input.rowsB > MAX_DIMENSION \/ input.colsB > MAX_DIMENSION THEN FALSE
    ELSE TRUE

VerifyMatrixDimensions(rowsA, colsA, rowsB, colsB, resultSize) ==
    IF colsA # rowsB THEN FALSE
    ELSE resultSize = rowsA * colsB * 8 \/ resultSize = rowsA * colsB * 4

\* result.elementMatches: the recomputed element is within the tolerance of
\* the element of the result.  With colsA > rowsB the loop reads matrix B past
\* the end of the input, and the element recomputed is any value.
SpotCheckMatrixValues(input, result) ==
    LET expectedElements == input.rowsA * input.colsB
        elementSize == result.size \div expectedElements
        matrixBOffset == DIMENSIONS_BYTES + input.rowsA * input.colsA * elementSize
        matrixBSize == input.rowsB * input.colsB * elementSize
    IN IF elementSize # 4 /\ elementSize # 8 THEN FALSE
       ELSE IF input.size < matrixBOffset + matrixBSize THEN TRUE
       ELSE result.elementMatches

VerifyResultHash(result, claimedHash) == SHA256Hash(result) = claimedHash

LinearAlgebraVerify(problem, solution) ==
    IF ~QuickValidate("LINEAR_ALGEBRA", problem, solution) THEN Malformed
    ELSE
    LET result == solution.result
        input == problem.inputData
        c1 == AddCheck(NewDetails, "valid_structure", solution.isValid)
        dimensionsParsed == ParseMatrixDimensions(input)
        c2 == AddCheck(c1, "dimensions_parseable", dimensionsParsed)
        dimensionsValid == VerifyMatrixDimensions(input.rowsA, input.colsA, input.rowsB,
                                                  input.colsB, result.size)
        hashValid == VerifyResultHash(result, solution.resultHash)
        spotCheckPassed == SpotCheckMatrixValues(input, result)
        hasIntermediates == solution.intermediates.count # 0
        parsed ==
            [AddCheck(AddCheck(AddCheck(AddCheck(c2,
                "result_dimensions_valid", dimensionsValid),
                "result_hash_valid", hashValid),
                "spot_check_passed", spotCheckPassed),
                "has_intermediates", hasIntermediates)
             EXCEPT !.score = (IF dimensionsValid THEN SCORE_DIMENSIONS ELSE 0)
                              + (IF hashValid THEN SCORE_HASH ELSE 0)
                              + (IF spotCheckPassed THEN SCORE_SPOT_CHECK ELSE 0)
                              + (IF hasIntermediates THEN SCORE_INTERMEDIATES ELSE 0)]
        fallback ==
            [AddCheck(AddCheck(AddCheck(c2,
                "result_size_valid", result.size > 0),
                "result_hash_valid", hashValid),
                "has_intermediates", hasIntermediates)
             EXCEPT !.score = IF hashValid THEN SCORE_HASH_ONLY ELSE SCORE_UNVERIFIED]
        scored == IF dimensionsParsed THEN parsed ELSE fallback
    IN Conclude(scored, AllPassed(scored.checks) /\ scored.score >= SCORE_FLOOR)

\* The problems and solutions handed to the verifiers
ProblemTypes == {"HASH_POW", "ML_TRAINING", "LINEAR_ALGEBRA", "GENERIC"}

ResultBytes(id, size, exponents, aboveMax, elementMatches) ==
    [id |-> id, size |-> size, exponents |-> exponents, aboveMax |-> aboveMax,
     elementMatches |-> elementMatches]

EmptyResult == ResultBytes(0, 0, {}, FALSE, FALSE)

Results ==
    {EmptyResult,
     ResultBytes(1, 16, {127}, FALSE, TRUE),
     ResultBytes(2, 16, {127, 255}, FALSE, FALSE),
     ResultBytes(3, 6, {}, FALSE, FALSE),
     ResultBytes(4, 32, {130, 140}, TRUE, TRUE)}

ResultHashes == {Hash256(0, 65), Hash256(1, 1), Hash256(0, 0), Hash256(2, 128), Hash256(0, 7)}

HashTargets == {Hash256(1, 64), Hash256(3, 0), Hash256(0, 200)}

InputData(size, target, rowsA, colsA, rowsB, colsB) ==
    [size |-> size, target |-> target, rowsA |-> rowsA, colsA |-> colsA,
     rowsB |-> rowsB, colsB |-> colsB]

VerificationData(size, word) == [size |-> size, word |-> word]

Intermediates(count, matching) == [count |-> count, matching |-> matching]

IntermediateChains == {Intermediates(0, 0), Intermediates(2, 0), Intermediates(2, 1)}

Problem(id, type, inputData, verificationData) ==
    [id |-> id, type |-> type, inputData |-> inputData, verificationData |-> verificationData]

Solution(problemId, result, resultHash, solver, isValid, iterations, intermediates, accuracy) ==
    [problemId |-> problemId, result |-> result, resultHash |-> resultHash,
     solver |-> solver, isValid |-> isValid, iterations |-> iterations,
     intermediates |-> intermediates, accuracy |-> accuracy]

VerifyInput(verifier, minAccuracy, problem, solution) ==
    [verifier |-> verifier, minAccuracy |-> minAccuracy, problem |-> problem,
     solution |-> solution]

HashPowInputs ==
    {VerifyInput("HASH_POW", 0,
                 Problem(1, type, InputData(size, target, 0, 0, 0, 0), VerificationData(0, 0)),
                 Solution(problemId, result, resultHash, "solver", TRUE, 1,
                          Intermediates(0, 0), 0)) :
        type \in {"HASH_POW", "GENERIC"}, size \in {16, 32, 80}, target \in HashTargets,
        problemId \in {1, 2}, result \in {r \in Results : r.id < 4},
        resultHash \in ResultHashes}

MLTrainingInputs ==
    {VerifyInput("ML_TRAINING", minAccuracy,
                 Problem(1, type, InputData(64, Hash256(0, 0), 0, 0, 0, 0), verificationData),
                 Solution(1, result, Hash256(0, 65), "solver", isValid, iterations,
                          intermediates, accuracy)) :
        minAccuracy \in {0, 800000}, type \in {"ML_TRAINING", "HASH_POW"},
        verificationData \in {VerificationData(0, 0), VerificationData(8, 95000),
                              VerificationData(8, 123456789), VerificationData(8, 99999)},
        result \in Results, isValid \in BOOLEAN,
        iterations \in {0, 100, MAX_ITERATIONS},
        intermediates \in IntermediateChains,
        accuracy \in {0, 500000, 900000, 1000000, 2000000}}

MatrixInputs ==
    {InputData(8, Hash256(0, 0), 2, 2, 2, 2),
     InputData(16, Hash256(0, 0), 2, 2, 2, 2),
     InputData(48, Hash256(0, 0), 2, 2, 2, 2),
     InputData(80, Hash256(0, 0), 2, 2, 2, 2),
     InputData(48, Hash256(0, 0), 2, 3, 2, 2),
     InputData(56, Hash256(0, 0), 2, 3, 2, 2),
     InputData(48, Hash256(0, 0), 0, 2, 2, 2),
     InputData(48, Hash256(0, 0), MAX_DIMENSION + 1, 1, 1, 1),
     InputData(48, Hash256(0, 0), MAX_DIMENSION, 1, 1, 1)}

LinearAlgebraInputs ==
    {VerifyInput("LINEAR_ALGEBRA", 0,
                 Problem(1, type, inputData, VerificationData(0, 0)),
                 Solution(problemId, result, resultHash, "solver", isValid, 1,
                          intermediates, 0)) :
        type \in {"LINEAR_ALGEBRA", "GENERIC"}, inputData \in MatrixInputs,
        problemId \in {1, 2}, result \in Results, resultHash \in ResultHashes,
        isValid \in BOOLEAN, intermediates \in IntermediateChains}

GenericInputs ==
    {VerifyInput("GENERIC", 0,
                 Problem(1, type, InputData(0, Hash256(0, 0), 0, 0, 0, 0),
                         VerificationData(0, 0)),
                 Solution(problemId, result, resultHash, solver, TRUE, 1,
                          Intermediates(0, 0), 0)) :
        type \in {"GENERIC", "ML_TRAINING"}, problemId \in {1, 2}, result \in Results,
        resultHash \in ResultHashes, solver \in {"", "solver"}}

InitVerify ==
    /\ MarketIdle
    /\ Idle
    /\ chain = <<>>
    /\ arg \in HashPowInputs \cup MLTrainingInputs \cup LinearAlgebraInputs \cup GenericInputs
    /\ out = NoValue

VerifyHashPow ==
    /\ out = NoValue
    /\ arg.verifier = "HASH_POW"
    /\ out' = Returned(HashPowVerify(arg.problem, arg.solution))
    /\ UNCHANGED <<arg, chain, ubivars, marketvars>>

VerifyMLTraining ==
    /\ out = NoValue
    /\ arg.verifier = "ML_TRAINING"
    /\ out' = Returned(MLTrainingVerify(arg.minAccuracy, arg.problem, arg.solution))
    /\ UNCHANGED <<arg, chain, ubivars, marketvars>>

VerifyLinearAlgebra ==
    /\ out = NoValue
    /\ arg.verifier = "LINEAR_ALGEBRA"
    /\ out' = Returned(LinearAlgebraVerify(arg.problem, arg.solution))
    /\ UNCHANGED <<arg, chain, ubivars, marketvars>>

VerifyGeneric ==
    /\ out = NoValue
    /\ arg.verifier = "GENERIC"
    /\ out' = Returned(GenericVerify("GENERIC", arg.problem, arg.solution))
    /\ UNCHANGED <<arg, chain, ubivars, marketvars>>

NextVerify ==
    \/ VerifyHashPow
    \/ VerifyMLTraining
    \/ VerifyLinearAlgebra
    \/ VerifyGeneric

SpecVerify == InitVerify /\ [][NextVerify]_vars

(***************************************************************************)
(* marketplace/verifier.cpp: SolutionVerifier's submission queue           *)
(***************************************************************************)
MaxConcurrent == 3

SolutionIds == 1..4

\* what the call op returned
CallReturned(op, v) == [done |-> TRUE, op |-> op, value |-> v]

\* what GetPendingCount returned
CountReturned(n) == [done |-> TRUE, count |-> n]

\* an entry of pendingQueue_: the solution and the callback given with it
Pending(solution) == [solution |-> solution, callback |-> solution]

InitQueue ==
    /\ Idle
    /\ arg = NoValue
    /\ out = NoValue
    /\ chain = <<>>
    /\ pendingQueue = <<>>
    /\ callbacks = {}
    /\ stats = <<>>
    /\ verifiers = <<>>
    /\ destroyed = {}
    /\ vpc = <<>>
    /\ handle = <<>>
    /\ vresult = <<>>

SubmitForVerification(solution) ==
    /\ IF Len(pendingQueue) >= MaxConcurrent
       THEN /\ out' = CallReturned("SubmitForVerification", FALSE)
            /\ UNCHANGED pendingQueue
       ELSE /\ pendingQueue' = Append(pendingQueue, Pending(solution))
            /\ out' = CallReturned("SubmitForVerification", TRUE)
    /\ UNCHANGED <<callbacks, stats, verifiers, destroyed, vpc, handle, vresult>>
    /\ UNCHANGED <<arg, chain, ubivars>>

GetPendingCount ==
    /\ out' = CountReturned(Len(pendingQueue))
    /\ UNCHANGED <<arg, chain, ubivars, marketvars>>

CancelVerification(solutionId) ==
    /\ out' = CallReturned("CancelVerification", FALSE)
    /\ UNCHANGED <<arg, chain, ubivars, marketvars>>

NextQueue ==
    \/ \E solution \in SolutionIds : SubmitForVerification(solution)
    \/ GetPendingCount
    \/ \E solutionId \in SolutionIds : CancelVerification(solutionId)

\* callers keep calling: the verifier is never left alone for ever
SpecQueue == InitQueue /\ [][NextQueue]_vars /\ WF_vars(NextQueue)

(***************************************************************************)
(* marketplace/verifier.cpp: VerifierRegistry and SolutionVerifier::Verify *)
(* called by threads.  A verifier object is a number; Register and         *)
(* GetVerifier each run whole under the registry's mutex_.                 *)
(***************************************************************************)
MaxRegistrations == 2
MaxVerifications == 3

RegistryTypes == {"HASH_POW", "GENERIC"}
NoVerifier == 0
VerificationResults == {"VALID", "INVALID", "MALFORMED"}

\* the registry as its constructor leaves it: a verifier for each type
DefaultVerifiers == [type \in RegistryTypes |-> IF type = "HASH_POW" THEN 1 ELSE 2]

\* the object std::make_unique gives the caller of Register
NewVerifier == Cardinality(DOMAIN verifiers) + Cardinality(destroyed) + 1

NoStats == [totalVerifications |-> 0, successfulCount |-> 0, failedCount |-> 0]

\* the Verify calls begun
Begun == stats.totalVerifications + Cardinality({t \in Threads : vpc[t] = "verify"})

Running == \A t \in Threads : vpc[t] # "crashed"

InitRegistry ==
    /\ Idle
    /\ arg = NoValue
    /\ out = NoValue
    /\ chain = <<>>
    /\ pendingQueue = <<>>
    /\ callbacks = {}
    /\ stats = NoStats
    /\ verifiers = DefaultVerifiers
    /\ destroyed = {}
    /\ vpc = [t \in Threads |-> "idle"]
    /\ handle = [t \in Threads |-> NoVerifier]
    /\ vresult = [t \in Threads |-> "none"]

\* verifiers_[type] = std::move(verifier): the unique_ptr that was there
\* deletes its verifier
Register(type) ==
    /\ Running
    /\ Cardinality(destroyed) < MaxRegistrations
    /\ destroyed' = IF type \in DOMAIN verifiers
                    THEN destroyed \cup {verifiers[type]}
                    ELSE destroyed
    /\ verifiers' = (type :> NewVerifier) @@ verifiers
    /\ UNCHANGED <<pendingQueue, callbacks, stats, vpc, handle, vresult>>
    /\ UNCHANGED <<arg, out, chain, ubivars>>

\* the raw pointer GetVerifier returns
GetVerifier(type) == IF type \in DOMAIN verifiers THEN verifiers[type] ELSE NoVerifier

\* SolutionVerifier::Verify up to the call verifier->Verify
VerifyGetVerifier(t, type) ==
    /\ vpc[t] = "idle"
    /\ Begun < MaxVerifications
    /\ handle' = [handle EXCEPT ![t] = GetVerifier(type)]
    /\ IF GetVerifier(type) = NoVerifier
       THEN /\ vresult' = [vresult EXCEPT ![t] = "TYPE_MISMATCH"]
            /\ UNCHANGED vpc
       ELSE /\ vpc' = [vpc EXCEPT ![t] = "verify"]
            /\ UNCHANGED vresult
    /\ UNCHANGED <<pendingQueue, callbacks, stats, verifiers, destroyed>>
    /\ UNCHANGED <<arg, out, chain, ubivars>>

\* verifier->Verify returns result, and the counters are updated
VerifyReturn(t, result) ==
    /\ vpc[t] = "verify"
    /\ vresult' = [vresult EXCEPT ![t] = result]
    /\ vpc' = [vpc EXCEPT ![t] = "idle"]
    /\ stats' = [totalVerifications |-> stats.totalVerifications + 1,
                 successfulCount |-> stats.successfulCount
                                     + (IF result = "VALID" THEN 1 ELSE 0),
                 failedCount |-> stats.failedCount
                                 + (IF result = "VALID" THEN 0 ELSE 1)]
    /\ UNCHANGED <<pendingQueue, callbacks, verifiers, destroyed, handle>>
    /\ UNCHANGED <<arg, out, chain, ubivars>>

\* verifier->Verify on a verifier that was deleted: the call through the
\* dangling pointer ends the process, or returns any result
VerifyDeleted(t) ==
    /\ vpc[t] = "verify"
    /\ handle[t] \in destroyed
    /\ vpc' = [u \in Threads |-> "crashed"]
    /\ UNCHANGED <<pendingQueue, callbacks, stats, verifiers, destroyed, handle, vresult>>
    /\ UNCHANGED <<arg, out, chain, ubivars>>

NextRegistry ==
    \/ \E type \in RegistryTypes : Register(type)
    \/ \E t \in Threads, type \in RegistryTypes : VerifyGetVerifier(t, type)
    \/ \E t \in Threads, result \in VerificationResults : VerifyReturn(t, result)
    \/ \E t \in Threads : VerifyDeleted(t)

SpecRegistry == InitRegistry /\ [][NextRegistry]_vars

TypeOK ==
    /\ \A e \in Epochs : pools[e] = NoPool \/ pools[e].epoch = e
    /\ currentEpoch \in Epochs
    /\ totalClaims \in 0..MaxClaims
    /\ claim.status \in ClaimStatuses

(***************************************************************************)
(* Properties                                                              *)
(***************************************************************************)

\* a step that is the call ProcessClaim(claim, r, h): the call stamps h into
\* the claim and returns a status
ProcessClaimStep(r, h) ==
    /\ claim'.submitHeight = h
    /\ ret' = claim'.status
    /\ ProcessClaim(r, h)

\* a step that is the call VerifyClaim(claim, r, h)
VerifyClaimStep(r, h) ==
    /\ ret' \in {"true", "false"}
    /\ VerifyClaim(r, h)

\* C1: no two ProcessClaim calls whose claims name the same epoch and carry
\* equal nullifiers both return Valid: a call that returns Valid is never for
\* an (epoch, nullifier) pair an earlier call already answered Valid.
C1_NoDoubleValid ==
    [][\A r \in Roots, h \in ClaimHeights :
          (ProcessClaimStep(r, h) /\ claim'.status = "Valid")
              => ~\E x \in validLog : x.epoch = claim.epoch /\ x.nullifier = claim.nullifier]_vars

\* C2: ProcessClaim answers Valid at most once per identity and epoch: every
\* admitted claim's nullifier hash is the nullifierHash public input of its
\* proof, and no two admitted claims of one epoch carry the same nullifierHash
\* public input.
C2_OncePerIdentity ==
    /\ \A x \in validLog : x.nullifier.hash = x.proofNullifier
    /\ \A x, y \in validLog :
          (x.epoch = y.epoch /\ x.proofNullifier = y.proofNullifier) => x = y

\* C3: every finalized pool has amountClaimed <= totalPool.
C3_NeverOverpays ==
    \A e \in Epochs :
        (HasPool(pools, e) /\ pools[e].isFinalized)
            => pools[e].amountClaimed <= pools[e].totalPool

\* C4: every finalized pool has amountClaimed = claimCount * amountPerPerson.
C4_ClaimedIsCountTimesShare ==
    \A e \in Epochs :
        (HasPool(pools, e) /\ pools[e].isFinalized)
            => pools[e].amountClaimed = pools[e].claimCount * pools[e].amountPerPerson

\* C8: once a pool is finalized no operation changes its amountPerPerson.
C8_ShareFixedOnceFinalized ==
    [][\A e \in Epochs :
          (HasPool(pools, e) /\ pools[e].isFinalized /\ HasPool(pools', e))
              => pools'[e].amountPerPerson = pools[e].amountPerPerson]_vars

\* C9: VerifyClaim returns true exactly when ProcessClaim, called in the same
\* state with the same arguments, would return Valid.
C9_VerifyAgreesWithProcess ==
    [][\A r \in Roots, h \in ClaimHeights :
          VerifyClaimStep(r, h)
              => (ret' = "true" <=> ProcessClaimStatus(pools, claim, r, h) = "Valid")]_vars

\* C10: ProcessClaim returns Valid only at a height inside the claim window
\* endHeight <= currentHeight <= claimDeadline of the pool, with
\* claimDeadline = endHeight + UBI_CLAIM_WINDOW + UBI_GRACE_EPOCHS * EPOCH_BLOCKS.
C10_ValidOnlyInsideWindow ==
    [][\A r \in Roots, h \in ClaimHeights :
          (ProcessClaimStep(r, h) /\ claim'.status = "Valid")
              => /\ pools[claim.epoch].endHeight <= h
                 /\ h <= pools[claim.epoch].claimDeadline
                 /\ pools[claim.epoch].claimDeadline =
                        pools[claim.epoch].endHeight + UBI_CLAIM_WINDOW
                        + UBI_GRACE_EPOCHS * EPOCH_BLOCKS]_vars

\* C6: a ProcessClaim call that returns a status other than Valid leaves every
\* pool (usedNullifiers, amountClaimed, claimCount included) and the
\* distributor's totalDistributed and totalClaims as they were.
C6_FailedClaimChangesNothing ==
    [][\A r \in Roots, h \in ClaimHeights :
          (ProcessClaimStep(r, h) /\ ret' # "Valid")
              => UNCHANGED <<pools, totalDistributed, totalClaims>>]_vars

\* a claim with a proof attached was rejected by a pool that has paid out before
C6_Witness ==
    /\ ret \in {"InvalidProof", "DoubleClaim", "EpochExpired"}
    /\ claim.status = ret
    /\ claim.proof # EmptyProof
    /\ HasPool(pools, claim.epoch)
    /\ pools[claim.epoch].claimCount > 0
    /\ totalClaims > 0

\* the checks of ProcessClaim, each as a fact about the call's inputs
NotComplete(ps, c) == ~HasPool(ps, c.epoch) \/ ~ps[c.epoch].isFinalized
Expired(ps, c, h) == h > ps[c.epoch].claimDeadline
Unfunded(ps, c) == ps[c.epoch].amountPerPerson = 0
AlreadyClaimed(ps, c) == c.nullifier \in ps[c.epoch].usedNullifiers

\* C7: ProcessClaim returns the first failing status in the order
\* EpochNotComplete, EpochExpired, PoolEmpty, DoubleClaim, InvalidProof, and
\* Valid when nothing fails.
C7_FirstFailingStatus ==
    [][\A r \in Roots, h \in ClaimHeights :
          ProcessClaimStep(r, h) =>
              /\ ret' = claim'.status
              /\ (ret' = "EpochNotComplete") <=> NotComplete(pools, claim)
              /\ (ret' = "EpochExpired") <=>
                    (~NotComplete(pools, claim) /\ Expired(pools, claim, h))
              /\ (ret' = "PoolEmpty") <=>
                    (/\ ~NotComplete(pools, claim) /\ ~Expired(pools, claim, h)
                     /\ Unfunded(pools, claim))
              /\ (ret' = "DoubleClaim") <=>
                    (/\ ~NotComplete(pools, claim) /\ ~Expired(pools, claim, h)
                     /\ ~Unfunded(pools, claim) /\ AlreadyClaimed(pools, claim))
              /\ (ret' = "InvalidProof") <=>
                    (/\ ~NotComplete(pools, claim) /\ ~Expired(pools, claim, h)
                     /\ ~Unfunded(pools, claim) /\ ~AlreadyClaimed(pools, claim)
                     /\ ~ProofAccepted(claim, r))
              /\ ret' \in {"EpochNotComplete", "EpochExpired", "PoolEmpty",
                           "DoubleClaim", "InvalidProof", "Valid"}]_vars

\* a claim whose nullifier is used and whose proof no root makes acceptable
\* was answered DoubleClaim
C7_Witness ==
    /\ ret = "DoubleClaim"
    /\ claim.status = "DoubleClaim"
    /\ \A r \in Roots : ~ProofAccepted(claim, r)
    /\ AlreadyClaimed(pools, claim)

\* C5: two threads call ProcessClaim with claims for the same finalized,
\* non-expired, funded epoch that carry the same unused nullifier and valid
\* proofs: whatever the interleaving, when both calls have returned exactly
\* one returned Valid, the other DoubleClaim, and claimCount grew by 1.
C5_RaceOneValidOneDouble ==
    (\A t \in Threads : pc[t] = "done")
        => /\ \E t \in Threads :
                 /\ tret[t] = "Valid"
                 /\ \A u \in Threads \ {t} : tret[u] = "DoubleClaim"
           /\ pools[0].claimCount = snapshot[0].claimCount + 1
           /\ pools[0].amountClaimed = snapshot[0].amountClaimed + pools[0].amountPerPerson

\* both calls returned and the thread that asked second in thread order won
C5_Witness ==
    /\ \A t \in Threads : pc[t] = "done"
    /\ tret[1] = "DoubleClaim"
    /\ tret[2] = "Valid"
    /\ tclaim[1].nullifier = tclaim[2].nullifier

\* a step in which thread t reads or writes pools_, currentEpoch_ or a pool
TouchesState(t) ==
    \/ AddGet(t)
    \/ AddWrite(t)
    \/ PruneErase(t)
    \/ GetPoolFind(t)
    \/ (tref[t] # NoRef /\ ReadPool(t))

\* C11: every operation reads or writes pools_, currentEpoch_ and the pools
\* only while its thread holds the distributor mutex, so that no thread
\* reads a pool while another thread mutates or erases it.
C11_StateTouchedUnderMutex ==
    [][\A t \in Threads : TouchesState(t) => mutex = t]_vars

\* C12: currentEpoch never decreases: after every AddBlockReward(height,
\* amount) call the current epoch is >= the current epoch before it.
C12_CurrentEpochMonotone ==
    [][\A h \in BlockHeights, a \in RewardAmounts :
          AddBlockReward(h, a) => currentEpoch' >= currentEpoch]_vars

\* the pool of epoch e paid a claim and is no longer in pools_: only
\* PruneOldPools removes pools, so PruneOldPools has deleted it
PrunedAfterPaying(e) ==
    /\ \E x \in validLog : x.epoch = e
    /\ ~HasPool(pools, e)

\* C13: once PruneOldPools has deleted the pool of an epoch, no later
\* operation makes a pool for that epoch exist again (stated for the epochs
\* whose pool had admitted a claim, where the deletion is on record).
C13_PrunedPoolStaysDeleted ==
    [][\A e \in Epochs : PrunedAfterPaying(e) => ~HasPool(pools', e)]_vars

\* the claim object was created Pending and an earlier ProcessClaim call has
\* set its status
AlreadyProcessed(c) == c.proof # EmptyProof /\ c.status # "Pending"

\* C14: a claim's status is terminal after its first ProcessClaim: a further
\* ProcessClaim call on the same claim object leaves its status and amount
\* as first set.
C14_StatusTerminal ==
    [][\A r \in Roots, h \in ClaimHeights :
          (ProcessClaimStep(r, h) /\ AlreadyProcessed(claim))
              => /\ claim'.status = claim.status
                 /\ claim'.amount = claim.amount]_vars

\* C15: for every reachable state D of the distributor, Deserialize applied
\* to Serialize(D) on a fresh distributor returns true and yields D: same
\* currentEpoch, same pools with all fields and nullifier sets, and the same
\* counters totalDistributed and totalClaims.
C15_DistributorRoundTrip ==
    LET r == Deserialize(FreshDistributor, Serialize(DistributorState))
    IN r.ok /\ r.d = DistributorState

\* C16: for every UBIClaim c, UBIClaim::Deserialize(c.Serialize()) succeeds
\* and returns a claim equal to c field by field.
C16_ClaimRoundTrip ==
    out.done => (out.value # NullOpt /\ out.value = arg)

\* C17: for every 256-bit target t with t <= powLimit,
\* CompactToBig(BigToCompact(t)) equals t.
C17_CompactRoundTrip ==
    (out.done /\ ~ExceedsLimit(arg, powLimit)) => out.value.expanded = arg

\* C18: for every 256-bit input the compact value BigToCompact returns has
\* its sign bit 0x00800000 clear.
C18_SignBitClear ==
    out.done => ShiftRight(out.value.compact, 23) % 2 = 0

\* C19: for every previous nBits encoding a target <= powLimit and every
\* observed timespan, CalculateNextWorkRequired returns nBits whose expanded
\* target is at most 4 times and at least one quarter of the previous
\* expanded target (up to the truncation of the mantissa) and is never above
\* powLimit.
C19_RetargetWithinFactorFour ==
    out.done =>
        LET prev == Widen(CompactToBig(arg.nBits))
            next == Widen(CompactToBig(out.value))
        IN /\ ~ExceedsLimit(CompactToBig(out.value), arg.limit)
           /\ AtMostFourTimes(next, prev)
           /\ AtMostFourTimes(prev, AddWide(next, MantissaUnit(arg.nBits)))

\* the block at chain[i] was accepted after a time gap
GapBlock(i) == chain[i].nTime > chain[i - 1].nTime + TestNet.nPowTargetSpacing * 2

\* the nBits of the last block before chain[i] that is not at min difficulty
LastRealBits(i) ==
    LET real == {j \in 1..(i - 1) : chain[j].nBits # BigToCompact(TestNet.powLimit)}
    IN chain[CHOOSE j \in real : \A k \in real : k <= j].nBits

\* C20: on a network with fAllowMinDifficultyBlocks, a block whose header
\* time is within 2 * targetSpacing of its parent gets the nBits of the last
\* block that was not min-difficulty, wherever the min-difficulty blocks
\* before it sit relative to the adjustment interval.
C20_MinDifficultyNotPermanent ==
    \A i \in 2..Len(chain) : ~GapBlock(i) => chain[i].nBits = LastRealBits(i)

\* C21: for 0 <= n <= 63 GetBlockSubsidy(n * HalvingInterval) is
\* InitialReward >> n, for n >= 64 it is 0, and the subsidy never grows with
\* the height: it is at most the subsidy one block earlier and at height 0.
C21_SubsidyHalves ==
    out.done =>
        LET n == arg.height \div HALVING_INTERVAL
        IN /\ arg.height % HALVING_INTERVAL = 0 =>
                out.value.subsidy =
                    IF n >= MAX_HALVINGS THEN 0 ELSE ShiftRightBits(INITIAL_REWARD, n)
           /\ \A h \in {0, arg.height - 1} \cap SubsidyHeights :
                GetBlockSubsidy(h, RewardParams(arg.pct)) >= out.value.subsidy

\* a halving boundary past the first, with a subsidy that is not yet zero
C21_Witness ==
    /\ out.done
    /\ arg.height = 2 * HALVING_INTERVAL
    /\ out.value.subsidy > 0
    /\ out.value.subsidy < INITIAL_REWARD

\* C22: at every height the five splits of the subsidy add up to at most
\* the subsidy.
C22_SplitsWithinSubsidy ==
    out.done =>
        out.value.ubi + out.value.work + out.value.contribution
            + out.value.ecosystem + out.value.reserve <= out.value.subsidy

\* a subsidy that the percentages do not divide: the splits lose a remainder
C22_Witness ==
    /\ out.done
    /\ out.value.subsidy > 0
    /\ out.value.ubi + out.value.work + out.value.contribution
           + out.value.ecosystem + out.value.reserve < out.value.subsidy

\* a non-genesis block with a coinbase
NonGenesis == arg.shape = "ok" /\ arg.prev # NullHash

\* C23: for a non-genesis block whose coinbase contains no commitment,
\* VerifyUsefulWork returns true if and only if fPoUWOptional is set,
\* whatever the other network flags are.
C23_NoCommitmentIffOptional ==
    (out.done /\ NonGenesis /\ arg.place \notin CarryingPlaces) =>
        (out.value <=> arg.optional)

\* the number of positions whose byte differs from the byte before
Transitions(h) == Cardinality({i \in 1..(HASH_BYTES - 1) : h[i] # h[i - 1]})

\* the XOR of the first four bytes of h and prev is 0, or is 0xFFFFFFFF
XorAllZero(h, prev) == \A i \in 0..(BINDING_BYTES - 1) : h[i] = prev[i]
XorAllOnes(h, prev) == \A i \in 0..(BINDING_BYTES - 1) : h[i] + prev[i] = BYTE_MAX

C24_WitnessRejected ==
    /\ out.done
    /\ NonGenesis
    /\ arg.place \in CarryingPlaces
    /\ Transitions(arg.h) >= MIN_TRANSITIONS
    /\ XorAllOnes(arg.h, arg.prev)
    /\ ~out.value
\* what the verifier's QuickValidate returns on the input
QuickValidated == QuickValidate(arg.verifier, arg.problem, arg.solution)

EveryRecordedCheckPassed ==
    \A i \in DOMAIN out.value.checks : out.value.checks[i].passed

\* C25 as stated: Verify returns VALID if and only if QuickValidate passed
\* and every recorded check passed.
C25_ValidIffChecksPassed ==
    out # NoValue =>
        (out.value.result = "VALID" <=> (QuickValidated /\ EveryRecordedCheckPassed))

\* C25 amended: Verify returns VALID if and only if QuickValidate passed, the
\* checks were recorded (HashPowVerifier records none when the problem input
\* is shorter than the 32-byte target) and every recorded check passed; and
\* HashPowVerifier returns VALID only if SHA256(result) is the claimed hash.
C25_ValidIffRecordedChecksPassed ==
    out # NoValue =>
        /\ out.value.result = "VALID" <=>
               /\ QuickValidated
               /\ arg.verifier = "HASH_POW" => arg.problem.inputData.size >= TARGET_BYTES
               /\ EveryRecordedCheckPassed
        /\ (arg.verifier = "HASH_POW" /\ out.value.result = "VALID") =>
               SHA256Hash(arg.solution.result) = arg.solution.resultHash

C25_Witness ==
    /\ out # NoValue
    /\ arg.verifier = "HASH_POW"
    /\ QuickValidated
    /\ arg.problem.inputData.size >= TARGET_BYTES
    /\ Len(out.value.checks) = 2
    /\ EveryRecordedCheckPassed
    /\ out.value.result = "VALID"

\* C26: the score of the VerificationDetails a verifier returns lies in
\* [0, 1000000].
C26_ScoreInRange ==
    out # NoValue => (out.value.score >= 0 /\ out.value.score <= SCORE_MAX)

\* C27: a block at a height that is a multiple of the adjustment interval,
\* whose header is within 2 * targetSpacing of its parent, carries the
\* retargeted value CalculateNextWorkRequired(last, time of the block W - 1
\* predecessors of last back), also on the network that allows
\* min-difficulty blocks.
C27_RetargetAtInterval ==
    \A i \in 2..Len(chain) :
        LET W == DifficultyAdjustmentInterval(TestNet)
        IN (/\ chain[i].nHeight % W = 0
            /\ chain[i].nTime <= chain[i - 1].nTime + TestNet.nPowTargetSpacing * 2)
           => chain[i].nBits =
                  CalculateNextWorkRequired(chain[i - 1], chain[i - W].nTime, TestNet)

\* the solution is in the pending queue
IsPending(solution) == \E i \in DOMAIN pendingQueue : pendingQueue[i].solution = solution

\* C28: every solution SubmitForVerification accepted is eventually verified:
\* it leaves the pending queue and its callback is invoked.
C28_AcceptedEventuallyVerified ==
    \A solution \in SolutionIds :
        IsPending(solution) ~> (~IsPending(solution) /\ solution \in callbacks)

\* data Deserialize refuses: an unsupported version, too many pools, a pool
\* cut short, too many nullifiers, and the distributor's own serialization
\* with its last field missing
RefusedData ==
    LET own == Serialize(DistributorState)
        pool == SerializePool(NewPool(0))
    IN {<<SERIAL_VERSION + 1, epoch, 0>> : epoch \in Epochs}
       \cup {<<SERIAL_VERSION, epoch, MAX_POOL_COUNT + 1>> : epoch \in Epochs}
       \cup {<<SERIAL_VERSION, epoch, 1>> : epoch \in Epochs}
       \cup {<<SERIAL_VERSION, epoch, 1>> \o SubSeq(pool, 1, POOL_FIELDS - 1)
                \o <<MAX_NULLIFIER_COUNT + 1>> : epoch \in Epochs}
       \cup {SubSeq(own, 1, Len(own) - 1)}

\* C29: a Deserialize that returns false leaves currentEpoch and the pools as
\* they were before the call.
C29_FailedDeserializeKeepsState ==
    \A data \in RefusedData :
        LET r == Deserialize(DistributorState, data)
        IN ~r.ok => (r.d.currentEpoch = currentEpoch /\ r.d.pools = pools)

\* C30: the verifier whose handle a thread got from GetVerifier is alive
\* until the thread's verifier->Verify call has returned.
C30_VerifierInUseStaysAlive ==
    \A t \in Threads : vpc[t] = "verify" => handle[t] \notin destroyed

====
